---- MODULE Spec2Model ----
(***************************************************************************)
(* Model of the quotation comparison service.                              *)
(*                                                                         *)
(*   src/sku_processing.py  calculate_item_metrics, preprocess_data,       *)
(*                          get_supplier_unique_sku_counts,                *)
(*                          generate_comparison_table, normalize_sku_names *)
(*   src/app.py             parse_quantity_string, calculate_item_metrics, *)
(*                          preprocess_data, generate_comparison_table     *)
(*                          (the earlier, self-contained revision), and    *)
(*                          the session: st.session_state and the handlers *)
(*                          of extract_button and compare_button           *)
(*   specification 4.4      apply_canonical_names (its code is not among   *)
(*                          the sources)                                   *)
(*                                                                         *)
(* Representation of Python values                                         *)
(*   text      a tuple of one-character tokens; " " is whitespace          *)
(*   money     a float holding a price: an integer number of cents         *)
(*   percent   a float holding a discount: an integer number of tenths of  *)
(*             a percent (rounded results: hundredths of a percent)        *)
(*   rate      amount / quantity, an exact fraction [n, d] with d > 0      *)
(*   raw field a record [k, v]: k is the JSON shape of the field           *)
(*             ("missing" = key absent, "null" = None, ...), v its value   *)
(***************************************************************************)
EXTENDS Integers, Sequences, FiniteSets, TLC

\* ------------------------------------------------------------------------
\* Python helpers
\* ------------------------------------------------------------------------

\* str.lstrip() on a text
RECURSIVE LStrip(_)
LStrip(s) ==
    IF s = <<>> THEN s
    ELSE IF Head(s) = " " THEN LStrip(Tail(s)) ELSE s

\* str.rstrip() on a text
RECURSIVE RStrip(_)
RStrip(s) ==
    IF s = <<>> THEN s
    ELSE IF s[Len(s)] = " " THEN RStrip(SubSeq(s, 1, Len(s) - 1)) ELSE s

\* str.strip()
Strip(s) == RStrip(LStrip(s))

\* nearest integer to n / d, ties to the even neighbour (what round() gives
\* for a value that is exactly halfway)
RoundDiv(n, d) ==
    LET nn == IF d < 0 THEN -n ELSE n
        dd == IF d < 0 THEN -d ELSE d
        q  == nn \div dd
        r  == nn % dd
    IN  IF 2 * r < dd THEN q
        ELSE IF 2 * r > dd THEN q + 1
        ELSE IF q % 2 = 0 THEN q ELSE q + 1

\* Optional[float] values
None == [k |-> "none", v |-> 0]
Inf == [k |-> "inf", v |-> 0]
Num(x) == [k |-> "num", v |-> x]

\* Optional rate amount / quantity
NoRate == [k |-> "none", n |-> 0, d |-> 1]
\* the rate rounded to a whole number, which the code does not do
Rate_Rounded(a, q) == [k |-> "num", n |-> RoundDiv(a, q), d |-> 1]
Rate(a, q) == [k |-> "num", n |-> a, d |-> q]

\* ------------------------------------------------------------------------
\* calculate_item_metrics (sku_processing.py:12-28, app.py:148-163)
\* arguments are Optional values; base_rate in cents, base_discount_percent
\* in tenths of a percent, quantities integers
\* ------------------------------------------------------------------------
calculate_item_metrics_NoFreeGoods(base_rate, base_discount_percent, paid_qty, free_qty) ==
    IF base_rate.k = "none" \/ paid_qty.k = "none" \/ free_qty.k = "none"
    THEN [eff_rate |-> None, eff_disc |-> None, comparison_rate |-> None]
    ELSE IF base_rate.v < 0
    THEN [eff_rate |-> None, eff_disc |-> None, comparison_rate |-> None]
    ELSE
    LET disc  == IF base_discount_percent.k = "none" THEN 0
                 ELSE base_discount_percent.v
        p     == paid_qty.v
        f     == free_qty.v
        effK  == base_rate.v * (1000 - disc)
        comparison_rate ==
            IF p + f = 0
            THEN IF p > 0 THEN Inf ELSE Num(0)
            ELSE Num(RoundDiv(effK, 1000))
    IN  [eff_rate |-> Num(RoundDiv(effK, 1000)),
         eff_disc |-> Num(RoundDiv(disc * 100, 10)),
         comparison_rate |-> comparison_rate]

calculate_item_metrics_NegativeAllowed(base_rate, base_discount_percent, paid_qty, free_qty) ==
    IF base_rate.k = "none" \/ paid_qty.k = "none" \/ free_qty.k = "none"
    THEN [eff_rate |-> None, eff_disc |-> None, comparison_rate |-> None]
    ELSE
    LET disc  == IF base_discount_percent.k = "none" THEN 0
                 ELSE base_discount_percent.v
        p     == paid_qty.v
        f     == free_qty.v
        effK  == base_rate.v * (1000 - disc)
        comparison_rate ==
            IF p + f = 0
            THEN IF p > 0 THEN Inf ELSE Num(0)
            ELSE Num(RoundDiv(p * effK, 1000 * (p + f)))
    IN  [eff_rate |-> Num(RoundDiv(effK, 1000)),
         eff_disc |-> Num(RoundDiv(disc * 100, 10)),
         comparison_rate |-> comparison_rate]

calculate_item_metrics(base_rate, base_discount_percent, paid_qty, free_qty) ==
    IF base_rate.k = "none" \/ paid_qty.k = "none" \/ free_qty.k = "none"
    THEN [eff_rate |-> None, eff_disc |-> None, comparison_rate |-> None]
    ELSE IF base_rate.v < 0
    THEN [eff_rate |-> None, eff_disc |-> None, comparison_rate |-> None]
    ELSE
    LET disc  == IF base_discount_percent.k = "none" THEN 0
                 ELSE base_discount_percent.v
        p     == paid_qty.v
        f     == free_qty.v
        \* eff_rate_display = base_rate * (1 - disc / 100.0), in cents * 1000
        effK  == base_rate.v * (1000 - disc)
        comparison_rate ==
            IF p + f = 0
            THEN IF p > 0 THEN Inf ELSE Num(0)
            ELSE Num(RoundDiv(p * effK, 1000 * (p + f)))
    IN  [eff_rate |-> Num(RoundDiv(effK, 1000)),
         eff_disc |-> Num(RoundDiv(disc * 100, 10)),
         comparison_rate |-> comparison_rate]

\* ------------------------------------------------------------------------
\* Raw record fields (json.loads output, gemini_service.py:79-99, 116-118)
\* ------------------------------------------------------------------------

\* item.get(key, default).strip() on a text field: AttributeError when the
\* value is None or not a string
TextRaises(fld) == fld.k \in {"null", "num"}
TextGet(fld, default) == IF fld.k = "missing" THEN Strip(default) ELSE Strip(fld.v)

\* `float(x) if x else 0.0` on a price field (sku_processing.py:65-66,
\* app.py:177-178): "bad" is a non-numeric string
FloatRaises(fld) == fld.k = "bad"
FloatOrZero(fld) == IF fld.k \in {"str", "num"} THEN fld.v ELSE 0

\* int(x) on a quantity field (sku_processing.py:53-54)
IntRaises(fld) == fld.k = "bad"

\* ------------------------------------------------------------------------
\* parse_quantity_string (app.py:135-146)
\* ------------------------------------------------------------------------
\* a text is one token per character, except LongDigits, which stands for a
\* run of 4301 digits "1"
LongDigits == "1{4301}"
Width(c) == IF c = LongDigits THEN 4301 ELSE 1

Digits == {"0", "1", "2", "3", "4", "5", "6", "7", "8", "9", LongDigits}

DigitVal(c) ==
    CASE c = "0" -> 0 [] c = "1" -> 1 [] c = "2" -> 2 [] c = "3" -> 3
      [] c = "4" -> 4 [] c = "5" -> 5 [] c = "6" -> 6 [] c = "7" -> 7
      [] c = "8" -> 8 [] c = "9" -> 9

\* length of the longest prefix of s made of characters of cs
RECURSIVE SpanLen(_, _)
SpanLen(s, cs) ==
    IF s = <<>> THEN 0
    ELSE IF Head(s) \in cs THEN 1 + SpanLen(Tail(s), cs) ELSE 0

\* int() of a text of digits raises ValueError when the text has more than
\* sys.int_info.default_max_str_digits digits (Python 3.11)
INT_MAX_STR_DIGITS == 4300

RECURSIVE NumDigits(_)
NumDigits(ds) == IF ds = <<>> THEN 0 ELSE Width(Head(ds)) + NumDigits(Tail(ds))

IntTooLong(ds) == NumDigits(ds) > INT_MAX_STR_DIGITS

\* int() of a text of digits that is not too long
RECURSIVE ToInt(_)
ToInt(ds) ==
    IF ds = <<>> THEN 0
    ELSE 10 * ToInt(SubSeq(ds, 1, Len(ds) - 1)) + DigitVal(ds[Len(ds)])

Drop(s, n) == SubSeq(s, n + 1, Len(s))

QtyOK(paid, free) == [raised |-> FALSE, paid |-> paid, free |-> free]
QtyValueError == [raised |-> TRUE, paid |-> 0, free |-> 0]

\* \d+ and \s* at the start of a text: the digits matched, and what follows
LeadingDigits(s) == SubSeq(s, 1, SpanLen(s, Digits))
SkipDigits(s) == Drop(s, SpanLen(s, Digits))
SkipSpaces(s) == Drop(s, SpanLen(s, {" "}))

\* qty_str is the raw field: None / "" / 0 are falsy
parse_quantity_string(fld) ==
    IF fld.k \in {"missing", "null"} \/ fld.v = <<>> \/ (fld.k = "num" /\ fld.v = <<"0">>)
    THEN QtyOK(0, 0)
    ELSE
    LET qty_str == Strip(fld.v)
        group1  == LeadingDigits(qty_str)
        rest    == SkipSpaces(SkipDigits(qty_str))
        plus    == rest # <<>> /\ Head(rest) = "+"
        group2  == LeadingDigits(SkipSpaces(Tail(rest)))
        match_plus   == group1 # <<>> /\ plus /\ group2 # <<>>
        match_single == group1 # <<>>
    IN  IF match_plus
        THEN IF IntTooLong(group1) \/ IntTooLong(group2) THEN QtyValueError
             ELSE QtyOK(ToInt(group1), ToInt(group2))
        ELSE IF match_single
        THEN IF IntTooLong(group1) THEN QtyValueError
             ELSE QtyOK(ToInt(group1), 0)
        ELSE QtyOK(0, 0)

\* ------------------------------------------------------------------------
\* preprocess_data (sku_processing.py:30-110)
\* ------------------------------------------------------------------------
UNKNOWN_SKU_NAME == <<"UNKNOWN_SKU_NAME">>
UNKNOWN_SKU == <<"UNKNOWN_SKU">>
UNKNOWN_SUPPLIER == <<"UNKNOWN_SUPPLIER">>
NA == <<"N/A">>

\* `paid_qty == 0 and free_qty == 0` (sku_processing.py:73, app.py:188)
NoSignal_Negative(paid_qty, free_qty) == paid_qty + free_qty < 0

NoSignal(paid_qty, free_qty) == paid_qty = 0 /\ free_qty = 0

\* the explicit quantities of a record (sku_processing.py:45-57): the record
\* is skipped when one is missing or None, or when int() raises
ResolveQty_DefaultFree(item) ==
    IF item.paid_qty.k \in {"missing", "null", "bad"} \/ item.free_qty.k = "bad"
    THEN [skip |-> TRUE, paid |-> 0, free |-> 0]
    ELSE [skip |-> FALSE, paid |-> item.paid_qty.v,
          free |-> IF item.free_qty.k \in {"missing", "null"} THEN 0
                   ELSE item.free_qty.v]

ResolveQty(item) ==
    IF item.paid_qty.k \in {"missing", "null"} \/ item.free_qty.k \in {"missing", "null"}
    THEN [skip |-> TRUE, paid |-> 0, free |-> 0]
    ELSE IF IntRaises(item.paid_qty) \/ IntRaises(item.free_qty)
    THEN [skip |-> TRUE, paid |-> 0, free |-> 0]
    ELSE [skip |-> FALSE, paid |-> item.paid_qty.v, free |-> item.free_qty.v]

\* the body of the loop for one record: "raise" (an exception leaves the
\* function), "skip" (continue) or "emit" (append)
ProcessItem(item) ==
    LET qty      == ResolveQty(item)
        paid_qty == qty.paid
        free_qty == qty.free
        mrp      == FloatOrZero(item.mrp)
        base_rate == FloatOrZero(item.base_rate)
        base_discount_percent ==
            IF item.base_discount_percent.k = "str"
            THEN item.base_discount_percent.v ELSE 0
        total_qty == paid_qty + free_qty
        calculated_rate_per_qty ==
            IF item.amount.k \in {"int", "str"} /\ total_qty > 0
            THEN Rate(item.amount.v, total_qty)
            ELSE NoRate
        m == calculate_item_metrics(Num(base_rate), Num(base_discount_percent),
                                    Num(paid_qty), Num(free_qty))
    IN
    IF TextRaises(item.sku_name) \/ TextRaises(item.sku_invoice)
    THEN [out |-> "raise"]
    ELSE IF qty.skip
    THEN [out |-> "skip"]
    ELSE IF TextRaises(item.base_discount_percent)
    THEN [out |-> "raise"]
    ELSE IF FloatRaises(item.mrp) \/ FloatRaises(item.base_rate)
            \/ FloatRaises(item.base_discount_percent)
    THEN [out |-> "skip"]
    ELSE IF NoSignal(paid_qty, free_qty)
    THEN [out |-> "skip"]
    ELSE IF TextRaises(item.sku_supplier) \/ TextRaises(item.batch_number)
    THEN [out |-> "raise"]
    ELSE [out |-> "emit",
          item |-> [supplier |-> TextGet(item.sku_supplier, UNKNOWN_SUPPLIER),
                    sku |-> TextGet(item.sku_invoice, UNKNOWN_SKU),
                    sku_name |-> TextGet(item.sku_name, UNKNOWN_SKU_NAME),
                    mrp |-> mrp,
                    base_rate |-> base_rate,
                    paid_qty |-> paid_qty,
                    free_qty |-> free_qty,
                    qty_display_str |-> <<paid_qty, free_qty>>,
                    eff_rate_display_column |-> m.eff_rate,
                    eff_disc_display_column |-> m.eff_disc,
                    comparison_eff_rate |-> m.comparison_rate,
                    calculated_rate_per_qty |-> calculated_rate_per_qty,
                    batch_number |-> TextGet(item.batch_number, NA)]]

\* the loop over raw_data_list from record i on; acc is processed_items and
\* org the index in raw_data_list of the record each item was built from
RECURSIVE PreprocessFrom_Prepend(_, _, _, _)
PreprocessFrom_Prepend(raw_data_list, i, acc, org) ==
    IF i > Len(raw_data_list)
    THEN [raised |-> FALSE, items |-> acc, origin |-> org]
    ELSE LET r == ProcessItem(raw_data_list[i])
         IN  IF r.out = "raise"
             THEN [raised |-> TRUE, items |-> <<>>, origin |-> <<>>]
             ELSE IF r.out = "skip"
             THEN PreprocessFrom_Prepend(raw_data_list, i + 1, acc, org)
             ELSE PreprocessFrom_Prepend(raw_data_list, i + 1,
                                         <<r.item>> \o acc, <<i>> \o org)

RECURSIVE PreprocessFrom(_, _, _, _)
PreprocessFrom(raw_data_list, i, acc, org) ==
    IF i > Len(raw_data_list)
    THEN [raised |-> FALSE, items |-> acc, origin |-> org]
    ELSE LET r == ProcessItem(raw_data_list[i])
         IN  IF r.out = "raise"
             THEN [raised |-> TRUE, items |-> <<>>, origin |-> <<>>]
             ELSE IF r.out = "skip"
             THEN PreprocessFrom(raw_data_list, i + 1, acc, org)
             ELSE PreprocessFrom(raw_data_list, i + 1,
                                 Append(acc, r.item), Append(org, i))

preprocess_data(raw_data_list) == PreprocessFrom(raw_data_list, 1, <<>>, <<>>)

\* ------------------------------------------------------------------------
\* list.sort(key=...): the stable ascending order of s, where less[i, j]
\* tells whether the key of s[i] is smaller than the key of s[j]
\* ------------------------------------------------------------------------
SortedBy_LastOfTies(s, less) ==
    LET rank(i) == 1 + Cardinality({j \in 1..Len(s) :
                        less[j, i] \/ (~less[i, j] /\ j > i)})
    IN  [p \in 1..Len(s) |-> s[CHOOSE i \in 1..Len(s) : rank(i) = p]]

SortedBy(s, less) ==
    LET rank(i) == 1 + Cardinality({j \in 1..Len(s) :
                        less[j, i] \/ (~less[i, j] /\ j < i)})
    IN  [p \in 1..Len(s) |-> s[CHOOSE i \in 1..Len(s) : rank(i) = p]]

\* ------------------------------------------------------------------------
\* get_supplier_unique_sku_counts (sku_processing.py:112-121, app.py:210-218)
\* ------------------------------------------------------------------------
get_supplier_unique_sku_counts(all_processed_items) ==
    LET n == Len(all_processed_items)
        suppliers == {all_processed_items[i].supplier : i \in 1..n}
    IN  [s \in suppliers |->
            Cardinality({all_processed_items[i].sku :
                            i \in {j \in 1..n : all_processed_items[j].supplier = s}})]

\* supplier_unique_counts.get(supplier, 0)
CountGet(counts, s) == IF s \in DOMAIN counts THEN counts[s] ELSE 0

\* ------------------------------------------------------------------------
\* generate_comparison_table (sku_processing.py:123-196)
\* ------------------------------------------------------------------------
Dash == [k |-> "dash", v |-> <<"-">>]
Text(t) == [k |-> "text", v |-> t]
\* f"{x:.2f}" of a number of cents, of an Optional number, of a rate
Fmt2(x) == [k |-> "fmt", v |-> <<x>>]
FmtOpt(o) == IF o.k = "none" THEN Dash
             ELSE IF o.k = "inf" THEN [k |-> "fmt", v |-> <<"inf">>]
             ELSE Fmt2(o.v)
FmtRate(r) == IF r.k = "none" THEN Dash ELSE Fmt2(RoundDiv(100 * r.n, r.d))

\* the first component of the sort key (sku_processing.py:158):
\* calculated_rate_per_qty, None as float('inf')
RateKeyLess_Descending(x, y) ==
    /\ x.calculated_rate_per_qty.k = "num"
    /\ \/ y.calculated_rate_per_qty.k = "none"
       \/ x.calculated_rate_per_qty.n * y.calculated_rate_per_qty.d
            > y.calculated_rate_per_qty.n * x.calculated_rate_per_qty.d

RateKeyLess(x, y) ==
    /\ x.calculated_rate_per_qty.k = "num"
    /\ \/ y.calculated_rate_per_qty.k = "none"
       \/ x.calculated_rate_per_qty.n * y.calculated_rate_per_qty.d
            < y.calculated_rate_per_qty.n * x.calculated_rate_per_qty.d

RateKeyEq(x, y) == ~RateKeyLess(x, y) /\ ~RateKeyLess(y, x)

\* the sort key of sku_processing.py:157-161 as an order on offers
OfferLess_NoPaidQty(counts, x, y) ==
    \/ RateKeyLess(x, y)
    \/ /\ RateKeyEq(x, y)
       /\ CountGet(counts, x.supplier) > CountGet(counts, y.supplier)

OfferLess_NoCount(counts, x, y) ==
    \/ RateKeyLess(x, y)
    \/ /\ RateKeyEq(x, y)
       /\ x.paid_qty < y.paid_qty

OfferLess(counts, x, y) ==
    \/ RateKeyLess(x, y)
    \/ /\ RateKeyEq(x, y)
       /\ \/ x.paid_qty < y.paid_qty
          \/ /\ x.paid_qty = y.paid_qty
             /\ CountGet(counts, x.supplier) > CountGet(counts, y.supplier)

\* best_deal_text (sku_processing.py:153-165) from the sorted candidates
BestDealText_NA(sorted) ==
    IF Len(sorted) > 0 /\ sorted[1].calculated_rate_per_qty.k # "none"
    THEN Text(sorted[1].supplier)
    ELSE Text(NA)

BestDealText_NoCheck(sorted) ==
    IF Len(sorted) > 0 THEN Text(sorted[1].supplier) ELSE Dash

BestDealText(sorted) ==
    IF Len(sorted) > 0 /\ sorted[1].calculated_rate_per_qty.k # "none"
    THEN Text(sorted[1].supplier)
    ELSE Dash

\* one supplier's cell-group of a row
PlaceholderCells_NoBatch ==
    [MRP |-> Dash, BaseRate |-> Dash, EffRate |-> Dash, EffDisc |-> Dash,
     Qty |-> Dash, SKUCode |-> Dash, BatchNumber |-> [k |-> "nan", v |-> <<>>],
     CalcRate |-> Dash]

PlaceholderCells ==
    [MRP |-> Dash, BaseRate |-> Dash, EffRate |-> Dash, EffDisc |-> Dash,
     Qty |-> Dash, SKUCode |-> Dash, BatchNumber |-> Dash, CalcRate |-> Dash]

ItemCells(item) ==
    [MRP |-> Fmt2(item.mrp),
     BaseRate |-> Fmt2(item.base_rate),
     EffRate |-> FmtOpt(item.eff_rate_display_column),
     EffDisc |-> FmtOpt(item.eff_disc_display_column),
     Qty |-> [k |-> "qty", v |-> item.qty_display_str],
     SKUCode |-> Text(item.sku),
     BatchNumber |-> Text(item.batch_number),
     CalcRate |-> FmtRate(item.calculated_rate_per_qty)]

SeqToSet(s) == {s[i] : i \in 1..Len(s)}

\* the codes collected for a row (sku_processing.py:131-137): item.sku of
\* every item of that name, unless it is empty
original_sku_codes_for_this_normalized_name_FirstOnly(sku_name, all_processed_items) ==
    LET matching == {i \in 1..Len(all_processed_items) :
                        /\ all_processed_items[i].sku_name = sku_name
                        /\ all_processed_items[i].sku # <<>>}
    IN  {all_processed_items[i].sku : i \in {j \in matching : \A k \in matching : j <= k}}

original_sku_codes_for_this_normalized_name(sku_name, all_processed_items) ==
    {all_processed_items[i].sku :
        i \in {j \in 1..Len(all_processed_items) :
                  /\ all_processed_items[j].sku_name = sku_name
                  /\ all_processed_items[j].sku # <<>>}}

\* sorted(list(codes)): str order compares code points, so an upper-case
\* letter comes before a lower-case one; CodePointOrder lists the tokens of
\* the invoice codes, product names and suppliers in that order
CodePointOrder ==
    <<"A", "B", "P", "Q", "UNKNOWN_SKU", "UNKNOWN_SKU_NAME", "UNKNOWN_SUPPLIER",
      "s1", "s2">>
Ord(c) == CHOOSE p \in 1..Len(CodePointOrder) : CodePointOrder[p] = c

RECURSIVE TextLess(_, _)
TextLess(s, t) ==
    IF t = <<>> THEN FALSE
    ELSE IF s = <<>> THEN TRUE
    ELSE IF Head(s) # Head(t) THEN Ord(Head(s)) < Ord(Head(t))
    ELSE TextLess(Tail(s), Tail(t))

SortedTexts(S) ==
    [p \in 1..Cardinality(S) |->
        CHOOSE c \in S : Cardinality({d \in S : TextLess(d, c)}) = p - 1]

\* ", ".join(texts); Sep is the token of the two characters ", "
Sep == ", "
RECURSIVE Join(_)
Join(texts) ==
    IF texts = <<>> THEN <<>>
    ELSE IF Len(texts) = 1 THEN texts[1]
    ELSE texts[1] \o <<Sep>> \o Join(Tail(texts))

\* the row built for one sku_name (the body of the loop, lines 129-171)
ComparisonRow_FirstOffer(sku_name, all_processed_items, display_suppliers_order, counts) ==
    LET n == Len(all_processed_items)
        matching == {i \in 1..n : all_processed_items[i].sku_name = sku_name}
        IsMatch(item) == item.sku_name = sku_name
        offers_for_this_sku == SelectSeq(all_processed_items, IsMatch)
        less == [i, j \in 1..Len(offers_for_this_sku) |->
                    OfferLess(counts, offers_for_this_sku[i], offers_for_this_sku[j])]
        sorted == SortedBy(offers_for_this_sku, less)
        cells == [s \in SeqToSet(display_suppliers_order) |->
                    LET mine == {i \in matching : all_processed_items[i].supplier = s}
                    IN  IF mine = {} THEN PlaceholderCells
                        ELSE ItemCells(all_processed_items[
                                 CHOOSE i \in mine : \A j \in mine : i <= j])]
    IN  [sku_name |-> sku_name,
         cells |-> cells,
         offers |-> sorted,
         original_skus |->
             original_sku_codes_for_this_normalized_name(sku_name, all_processed_items),
         original_skus_text |->
             Join(SortedTexts(original_sku_codes_for_this_normalized_name(
                                  sku_name, all_processed_items))),
         best_deal |-> BestDealText(sorted)]

ComparisonRow(sku_name, all_processed_items, display_suppliers_order, counts) ==
    LET n == Len(all_processed_items)
        matching == {i \in 1..n : all_processed_items[i].sku_name = sku_name}
        IsMatch(item) == item.sku_name = sku_name
        offers_for_this_sku == SelectSeq(all_processed_items, IsMatch)
        less == [i, j \in 1..Len(offers_for_this_sku) |->
                    OfferLess(counts, offers_for_this_sku[i], offers_for_this_sku[j])]
        sorted == SortedBy(offers_for_this_sku, less)
        cells == [s \in SeqToSet(display_suppliers_order) |->
                    LET mine == {i \in matching : all_processed_items[i].supplier = s}
                    IN  IF mine = {} THEN PlaceholderCells
                        ELSE ItemCells(all_processed_items[
                                 CHOOSE i \in mine : \A j \in mine : j <= i])]
    IN  [sku_name |-> sku_name,
         cells |-> cells,
         offers |-> sorted,
         original_skus |->
             original_sku_codes_for_this_normalized_name(sku_name, all_processed_items),
         original_skus_text |->
             Join(SortedTexts(original_sku_codes_for_this_normalized_name(
                                  sku_name, all_processed_items))),
         best_deal |-> BestDealText(sorted)]

generate_comparison_table_SkipUnmatched(target_sku_names, all_processed_items, display_suppliers_order) ==
    LET counts == get_supplier_unique_sku_counts(all_processed_items)
        Matched(name) == \E i \in 1..Len(all_processed_items) :
                            all_processed_items[i].sku_name = name
        kept == SelectSeq(target_sku_names, Matched)
    IN  [r \in 1..Len(kept) |->
            ComparisonRow(kept[r], all_processed_items,
                          display_suppliers_order, counts)]

generate_comparison_table(target_sku_names, all_processed_items, display_suppliers_order) ==
    LET counts == get_supplier_unique_sku_counts(all_processed_items)
    IN  [r \in 1..Len(target_sku_names) |->
            ComparisonRow(target_sku_names[r], all_processed_items,
                          display_suppliers_order, counts)]

\* ------------------------------------------------------------------------
\* app.py: preprocess_data (165-208) and generate_comparison_table (220-278)
\* of the earlier revision, which reads qty_str and knows no amount
\* ------------------------------------------------------------------------
app_ProcessItem(item) ==
    LET q        == parse_quantity_string(item.qty_str)
        paid_qty == q.paid
        free_qty == q.free
        mrp      == FloatOrZero(item.mrp)
        base_rate == FloatOrZero(item.base_rate)
        base_discount_percent ==
            IF item.base_discount_percent.k = "str"
            THEN item.base_discount_percent.v ELSE 0
        m == calculate_item_metrics(Num(base_rate), Num(base_discount_percent),
                                    Num(paid_qty), Num(free_qty))
    IN
    IF TextRaises(item.sku_name) \/ TextRaises(item.sku_invoice)
    THEN [out |-> "raise"]
    ELSE IF q.raised
    THEN [out |-> "raise"]
    ELSE IF FloatRaises(item.mrp) \/ FloatRaises(item.base_rate)
    THEN [out |-> "skip"]
    ELSE IF TextRaises(item.base_discount_percent)
    THEN [out |-> "raise"]
    ELSE IF FloatRaises(item.base_discount_percent)
    THEN [out |-> "skip"]
    ELSE IF NoSignal(paid_qty, free_qty)
    THEN [out |-> "skip"]
    ELSE IF TextRaises(item.sku_supplier)
    THEN [out |-> "raise"]
    ELSE [out |-> "emit",
          item |-> [supplier |-> TextGet(item.sku_supplier, UNKNOWN_SUPPLIER),
                    sku |-> TextGet(item.sku_invoice, UNKNOWN_SKU),
                    sku_name |-> TextGet(item.sku_name, UNKNOWN_SKU_NAME),
                    mrp |-> mrp,
                    base_rate |-> base_rate,
                    paid_qty |-> paid_qty,
                    free_qty |-> free_qty,
                    qty_display_str |-> <<paid_qty, free_qty>>,
                    eff_rate_display_column |-> m.eff_rate,
                    eff_disc_display_column |-> m.eff_disc,
                    comparison_eff_rate |-> m.comparison_rate]]

RECURSIVE app_PreprocessFrom(_, _, _, _)
app_PreprocessFrom(raw_data_list, i, acc, org) ==
    IF i > Len(raw_data_list)
    THEN [raised |-> FALSE, items |-> acc, origin |-> org]
    ELSE LET r == app_ProcessItem(raw_data_list[i])
         IN  IF r.out = "raise"
             THEN [raised |-> TRUE, items |-> <<>>, origin |-> <<>>]
             ELSE IF r.out = "skip"
             THEN app_PreprocessFrom(raw_data_list, i + 1, acc, org)
             ELSE app_PreprocessFrom(raw_data_list, i + 1,
                                     Append(acc, r.item), Append(org, i))

app_preprocess_data(raw_data_list) == app_PreprocessFrom(raw_data_list, 1, <<>>, <<>>)

\* the first component of the sort key (app.py:247): comparison_eff_rate,
\* None as float('inf')
EffKeyLess(x, y) ==
    /\ x.comparison_eff_rate.k = "num"
    /\ \/ y.comparison_eff_rate.k \in {"none", "inf"}
       \/ x.comparison_eff_rate.v < y.comparison_eff_rate.v

EffKeyEq(x, y) == ~EffKeyLess(x, y) /\ ~EffKeyLess(y, x)

\* the sort key of app.py:246-250 as an order on offers
app_OfferLess(counts, x, y) ==
    \/ EffKeyLess(x, y)
    \/ /\ EffKeyEq(x, y)
       /\ \/ x.paid_qty < y.paid_qty
          \/ /\ x.paid_qty = y.paid_qty
             /\ CountGet(counts, x.supplier) > CountGet(counts, y.supplier)

\* best_deal_text (app.py:244-253) from the sorted candidates
app_BestDealText(sorted) ==
    IF Len(sorted) > 0 /\ sorted[1].comparison_eff_rate.k = "num"
    THEN [k |-> "text", v |-> sorted[1].supplier,
          qty |-> sorted[1].qty_display_str]
    ELSE [k |-> "dash", v |-> <<"-">>, qty |-> <<0, 0>>]

app_PlaceholderCells ==
    [MRP |-> Dash, BaseRate |-> Dash, EffRate |-> Dash, EffDisc |-> Dash,
     Qty |-> Dash, SKUCode |-> Dash]

app_ItemCells(item) ==
    [MRP |-> Fmt2(item.mrp),
     BaseRate |-> Fmt2(item.base_rate),
     EffRate |-> FmtOpt(item.eff_rate_display_column),
     EffDisc |-> FmtOpt(item.eff_disc_display_column),
     Qty |-> [k |-> "qty", v |-> item.qty_display_str],
     SKUCode |-> Text(item.sku)]

app_ComparisonRow(sku_name, all_processed_items, display_suppliers_order, counts) ==
    LET n == Len(all_processed_items)
        matching == {i \in 1..n : all_processed_items[i].sku_name = sku_name}
        IsMatch(item) == item.sku_name = sku_name
        offers_for_this_sku == SelectSeq(all_processed_items, IsMatch)
        less == [i, j \in 1..Len(offers_for_this_sku) |->
                    app_OfferLess(counts, offers_for_this_sku[i], offers_for_this_sku[j])]
        sorted == SortedBy(offers_for_this_sku, less)
        cells == [s \in SeqToSet(display_suppliers_order) |->
                    LET mine == {i \in matching : all_processed_items[i].supplier = s}
                    IN  IF mine = {} THEN app_PlaceholderCells
                        ELSE app_ItemCells(all_processed_items[
                                 CHOOSE i \in mine : \A j \in mine : j <= i])]
    IN  [sku_name |-> sku_name,
         cells |-> cells,
         offers |-> sorted,
         best_deal |-> app_BestDealText(sorted)]

app_generate_comparison_table(target_sku_names, all_processed_items, display_suppliers_order) ==
    LET counts == get_supplier_unique_sku_counts(all_processed_items)
    IN  [r \in 1..Len(target_sku_names) |->
            app_ComparisonRow(target_sku_names[r], all_processed_items,
                              display_suppliers_order, counts)]

\* ------------------------------------------------------------------------
\* normalize_sku_names (sku_processing.py:198-310); a dict is a function, the
\* response of the client call is RespRaise (the call raised), RespNone (a
\* falsy response) or RespOK(mappings)
\* ------------------------------------------------------------------------
Mapping(original, normalized) ==
    [original_sku_name |-> original, normalized_sku_name |-> normalized]
RespRaise == [k |-> "raise", mappings |-> <<>>]
RespNone == [k |-> "none", mappings |-> <<>>]
RespOK(mappings) == [k |-> "ok", mappings |-> mappings]

\* map.get(name, name)
MapGet(map, name) == IF name \in DOMAIN map THEN map[name] ELSE name

\* temp_normalized_map after the mappings from i on (lines 284-289)
RECURSIVE TempMapFrom(_, _, _, _)
TempMapFrom(mappings, unique_sku_names, i, temp) ==
    IF i > Len(mappings) THEN temp
    ELSE LET m == mappings[i]
             next == IF m.original_sku_name \in unique_sku_names
                     THEN [n \in DOMAIN temp \cup {m.original_sku_name} |->
                              IF n = m.original_sku_name THEN m.normalized_sku_name
                              ELSE temp[n]]
                     ELSE temp
         IN  TempMapFrom(mappings, unique_sku_names, i + 1, next)

\* {name: name for name in sku_names}
IdentityMap(sku_names) == [n \in {sku_names[i] : i \in 1..Len(sku_names)} |-> n]

normalize_sku_names_ReturnTemp(sku_names, response) ==
    IF sku_names = <<>> THEN <<>>
    ELSE IF response.k = "raise" THEN IdentityMap(sku_names)
    ELSE
    LET unique_sku_names == {sku_names[i] : i \in 1..Len(sku_names)}
    IN  IF response.k = "ok" /\ response.mappings # <<>>
        THEN TempMapFrom(response.mappings, unique_sku_names, 1, <<>>)
        ELSE <<>>

normalize_sku_names(sku_names, response) ==
    IF sku_names = <<>> THEN <<>>
    ELSE IF response.k = "raise" THEN IdentityMap(sku_names)
    ELSE
    LET unique_sku_names == {sku_names[i] : i \in 1..Len(sku_names)}
        temp_normalized_map ==
            IF response.k = "ok" /\ response.mappings # <<>>
            THEN TempMapFrom(response.mappings, unique_sku_names, 1, <<>>)
            ELSE <<>>
    IN  [original_name \in unique_sku_names |->
            MapGet(temp_normalized_map, original_name)]

\* ------------------------------------------------------------------------
\* apply_canonical_names(offers, mapping): the caller of normalize_sku_names
\* that renames the offers is not among the sources; modelled from section
\* 4.4 of the specification (look product_name up in the mapping; replace it
\* when present, leave it when absent)
\* ------------------------------------------------------------------------
RenamedOffer(offer, name) == [offer EXCEPT !.sku_name = name]

apply_canonical_names_DropUnmapped(offers, mapping) ==
    LET Mapped(offer) == offer.sku_name \in DOMAIN mapping
        kept == SelectSeq(offers, Mapped)
    IN  [j \in 1..Len(kept) |-> RenamedOffer(kept[j], mapping[kept[j].sku_name])]

apply_canonical_names(offers, mapping) ==
    [j \in 1..Len(offers) |->
        IF offers[j].sku_name \in DOMAIN mapping
        THEN RenamedOffer(offers[j], mapping[offers[j].sku_name])
        ELSE offers[j]]

\* ------------------------------------------------------------------------
\* Calls with a list argument that is None
\* ------------------------------------------------------------------------
NullList == [k |-> "null", v |-> <<>>]
ListOf(s) == [k |-> "list", v |-> s]

\* preprocess_data: `if not raw_data_list: return []` (sku_processing.py:36)
preprocess_data_opt(raw_data_list) ==
    IF raw_data_list.k = "null" \/ raw_data_list.v = <<>>
    THEN [raised |-> FALSE, items |-> <<>>, origin |-> <<>>]
    ELSE preprocess_data(raw_data_list.v)

\* generate_comparison_table raises TypeError when it iterates None:
\* all_processed_items at line 115, target_sku_names at line 128,
\* display_suppliers_order at line 138 or 148 inside the loop over the names
TableRaises(target_sku_names, all_processed_items, display_suppliers_order) ==
    \/ all_processed_items.k = "null"
    \/ target_sku_names.k = "null"
    \/ display_suppliers_order.k = "null" /\ target_sku_names.v # <<>>

generate_comparison_table_opt(target_sku_names, all_processed_items, display_suppliers_order) ==
    IF TableRaises(target_sku_names, all_processed_items, display_suppliers_order)
    THEN [raised |-> TRUE, rows |-> <<>>]
    ELSE [raised |-> FALSE,
          rows |-> generate_comparison_table(target_sku_names.v, all_processed_items.v,
                                             display_suppliers_order.v)]

\* ------------------------------------------------------------------------
\* The arguments of a call as the call leaves them
\* ------------------------------------------------------------------------
\* preprocess_data only reads raw_data_list (for ... in, item.get); the list
\* it appends to is its own processed_items (sku_processing.py:35, 94)
preprocess_data_args(raw_data_list) == raw_data_list

\* generate_comparison_table iterates over its three lists and reads the
\* items; it appends to and sorts offers_for_this_sku, a list it creates for
\* each row (sku_processing.py:130, 135, 157)
generate_comparison_table_args_SortShared(target_sku_names, all_processed_items, display_suppliers_order) ==
    LET counts == get_supplier_unique_sku_counts(all_processed_items)
        less == [i, j \in 1..Len(all_processed_items) |->
                    OfferLess(counts, all_processed_items[i], all_processed_items[j])]
    IN  [target_sku_names |-> target_sku_names,
         all_processed_items |->
             IF target_sku_names = <<>> THEN all_processed_items
             ELSE SortedBy(all_processed_items, less),
         display_suppliers_order |-> display_suppliers_order]

generate_comparison_table_args(target_sku_names, all_processed_items, display_suppliers_order) ==
    [target_sku_names |-> target_sku_names,
     all_processed_items |-> all_processed_items,
     display_suppliers_order |-> display_suppliers_order]

\* ------------------------------------------------------------------------
\* Input domain
\* ------------------------------------------------------------------------
MaxRecords == 2     \* offers in a well-formed list
MaxCatalog == 1     \* further catalogue records appended to it
MaxDirtyLen == 2    \* records in a list with a malformed record
MaxBad == 1         \* malformed records in such a list

Missing == [k |-> "missing", v |-> <<>>]
Null == [k |-> "null", v |-> <<>>]
Str(t) == [k |-> "str", v |-> t]
JNum(t) == [k |-> "num", v |-> t]
NMissing == [k |-> "missing", v |-> 0]
NNull == [k |-> "null", v |-> 0]
NEmpty == [k |-> "empty", v |-> 0]
NBad == [k |-> "bad", v |-> 0]
NStr(x) == [k |-> "str", v |-> x]
NNum(x) == [k |-> "num", v |-> x]
NInt(x) == [k |-> "int", v |-> x]

A == <<"A">>
B == <<"B">>
P == <<"P">>
Q == <<"Q">>

\* quantity scheme, amount and listed price of an offer
Deals ==
    { [paid |-> 10, free |-> 0, qty |-> <<"1", "0", "+", "0">>,
       amount |-> NInt(100), base |-> 10000, disc |-> 100],
      [paid |-> 5, free |-> 0, qty |-> <<"5">>,
       amount |-> NInt(50), base |-> 10000, disc |-> 100],
      [paid |-> 10, free |-> 0, qty |-> <<"1", "0", "+", "0">>,
       amount |-> NInt(110), base |-> 9500, disc |-> 0],
      [paid |-> 10, free |-> 0, qty |-> <<"1", "0", "+", "0">>,
       amount |-> NMissing, base |-> 9500, disc |-> 0],
      [paid |-> 10, free |-> 1, qty |-> <<"1", "0", " ", "+", " ", "1">>,
       amount |-> NMissing, base |-> 10000, disc |-> 100] }

MkRecord(supplier, name, sku, deal) ==
    [sku_supplier |-> Str(supplier),
     sku_invoice |-> Str(sku),
     sku_name |-> Str(name),
     mrp |-> NStr(12000),
     base_rate |-> NStr(deal.base),
     base_discount_percent |-> NStr(deal.disc),
     qty_str |-> Str(deal.qty),
     paid_qty |-> NInt(deal.paid),
     free_qty |-> NInt(deal.free),
     batch_number |-> Str(<<"b1">>),
     amount |-> deal.amount]

\* offers for the product P under the invoice code s1
CleanRecords == {MkRecord(s, P, <<"s1">>, d) : s \in {A, B}, d \in Deals}

Deal0 == [paid |-> 10, free |-> 0, qty |-> <<"1", "0", "+", "0">>,
          amount |-> NInt(100), base |-> 10000, disc |-> 100]

\* further records of the suppliers' catalogues under the invoice code s2
CatalogRecords ==
    {MkRecord(A, Q, <<"s2">>, Deal0), MkRecord(B, Q, <<"s2">>, Deal0),
     MkRecord(B, P, <<"s2">>, Deal0)}

Base0 == MkRecord(A, P, <<"s1">>, Deal0)
Base1 == MkRecord(B, P, <<"s1">>, Deal0)

\* Base0 with one field (or two) missing, null, empty, mistyped or malformed
DirtyRecords ==
    ({[Base0 EXCEPT !.sku_supplier = x] :
            x \in {Missing, Null, Str(<<>>), Str(<<" ", "A", " ">>)}}
      \cup {[Base0 EXCEPT !.sku_invoice = x] : x \in {Missing, Null, Str(<<>>)}}
      \cup {[Base0 EXCEPT !.sku_name = x] :
            x \in {Missing, Null, JNum(<<"7">>), Str(<<" ", "P", " ">>)}}
      \cup {[Base0 EXCEPT !.batch_number = x] : x \in {Missing, Null}}
      \cup {[Base0 EXCEPT !.mrp = x] : x \in {NMissing, NNull, NEmpty, NBad, NNum(0)}}
      \cup {[Base0 EXCEPT !.base_rate = x] :
            x \in {NMissing, NNull, NEmpty, NBad, NNum(10000), NStr(-500)}}
      \cup {[Base0 EXCEPT !.base_discount_percent = x] :
            x \in {NMissing, NNull, NEmpty, NBad, NNum(100), NStr(125)}}
      \cup {[Base0 EXCEPT !.paid_qty = x] :
            x \in {NMissing, NNull, NBad, NStr(3), NInt(-10)}}
      \cup {[Base0 EXCEPT !.free_qty = x] :
            x \in {NMissing, NNull, NBad, NStr(3), NInt(-10)}}
      \cup {[Base0 EXCEPT !.amount = x] : x \in {NNull, NBad, NInt(0)}}
      \cup {[Base0 EXCEPT !.qty_str = x] :
            x \in {Missing, Str(<<"a", "b", "c">>),
                   Str(<<" ", "3", " ", "+", " ", "1", "x">>), JNum(<<"1", "5">>),
                   Str(<<"5", "+", LongDigits>>)}}
      \cup {[Base0 EXCEPT !.paid_qty = NInt(0), !.free_qty = NInt(0),
                          !.qty_str = Str(<<"0", "+", "0">>)],
            [Base0 EXCEPT !.paid_qty = NInt(0), !.free_qty = NInt(0),
                          !.qty_str = Str(<<"0">>), !.mrp = NBad],
            [Base0 EXCEPT !.mrp = NBad, !.base_discount_percent = NNull],
            [Base0 EXCEPT !.paid_qty = NMissing, !.sku_supplier = Null],
            [Base0 EXCEPT !.free_qty = NMissing,
                          !.qty_str = Str(<<"1", "0", "+", "2">>)]})
      \ {Base0, Base1}

SeqsUpTo(S, n) == UNION {[1..m -> S] : m \in 0..n}

CleanInputs ==
    {xs \o cs : xs \in SeqsUpTo(CleanRecords, MaxRecords),
                cs \in SeqsUpTo(CatalogRecords, MaxCatalog)}

\* the records around a malformed one: Base0, Base1, and Base1 with a
\* quantity string that reads differently from its explicit quantities
Base2 == [Base1 EXCEPT !.qty_str = Str(<<"1", "0", "+", "2">>)]

\* one malformed record of each outcome: the call raises, the record is
\* skipped, the record is emitted with a default
CoreDirtyRecords ==
    {[Base0 EXCEPT !.sku_name = Null],
     [Base0 EXCEPT !.mrp = NBad],
     [Base0 EXCEPT !.sku_supplier = Missing],
     [Base0 EXCEPT !.paid_qty = NMissing]}

\* lists with at most MaxBad malformed records, at most one of them other
\* than the four above
DirtyInputs ==
    {xs \in SeqsUpTo(DirtyRecords \cup {Base0, Base1, Base2}, MaxDirtyLen) :
        /\ Cardinality({i \in 1..Len(xs) : xs[i] \in DirtyRecords}) <= MaxBad
        /\ Cardinality({i \in 1..Len(xs) :
                           xs[i] \in DirtyRecords \ CoreDirtyRecords}) <= 1}

\* a well-formed record, then a list with a malformed record that ends with
\* a well-formed one
SandwichInputs ==
    {<<Base1>> \o xs :
        xs \in {ys \in DirtyInputs : Len(ys) = MaxDirtyLen /\ ys[Len(ys)] = Base0}}

\* arguments of a direct call of parse_quantity_string: None, the number 15,
\* every text of at most MaxQtyLen characters of QtyAlphabet, and the
\* examples of the documentation
MaxQtyLen == 5
QtyAlphabet == {"0", "1", " ", "+", "x", LongDigits}
QtyExamples ==
    {<<"1", "6", "+", "0">>, <<"3", "2", " ", "+", " ", "8">>, <<"1", "5">>,
     <<"a", "b", "c">>, <<"3", "2", "+", "8">>}
QtyInputs ==
    {Null, JNum(<<"1", "5">>), JNum(<<"0">>)}
      \cup {Str(t) : t \in SeqsUpTo(QtyAlphabet, MaxQtyLen) \cup QtyExamples}

\* arguments of a direct call of normalize_sku_names: a list of names and
\* the response of the client to it; Cn is a canonical name, X a name that
\* was not sent
MaxNames == 2
MaxMappings == 2
Cn == <<"C">>
X == <<"X">>
NameInputs == SeqsUpTo({P, Q}, MaxNames)
MappingChoices == {Mapping(o, n) : o \in {P, Q, X}, n \in {P, Q, Cn}}
Responses ==
    {RespRaise, RespNone} \cup {RespOK(ms) : ms \in SeqsUpTo(MappingChoices, MaxMappings)}

\* arguments of apply_canonical_names: offers named P, Q or Cn and every
\* mapping from some of these names to these names
MaxApplyOffers == 2
ApplyOffers ==
    SeqsUpTo({[supplier |-> s, sku |-> <<"s1">>, sku_name |-> n] :
                 s \in {A}, n \in {P, Q, Cn}}, MaxApplyOffers)
NameMappings == UNION {[K -> {P, Q, Cn}] : K \in SUBSET {P, Q, Cn}}

\* arguments of the two calls when a list may be empty or None
OptRawLists == {NullList, ListOf(<<>>), ListOf(<<Base0>>), ListOf(<<Base1, Base0>>)}
OptNames == {NullList, ListOf(<<>>), ListOf(<<P>>), ListOf(<<Q, P>>)}
OptOrders == {NullList, ListOf(<<>>), ListOf(<<A>>), ListOf(<<A, B>>)}

\* arguments of a direct call of calculate_item_metrics
MetricBaseRates == {None, Num(-500), Num(0), Num(9500), Num(10000)}
MetricDiscounts == {None, Num(0), Num(100), Num(150)}
MetricPaidQtys == {None, Num(0), Num(1), Num(5), Num(10)}
MetricFreeQtys == {None, Num(-10), Num(-1), Num(0), Num(1), Num(2)}

\* arguments <<target_sku_names, display_suppliers_order>> of a call of
\* generate_comparison_table
TableArgs ==
    {<<<<P>>, <<A, B>>>>, <<<<Q, P>>, <<B>>>>, <<<<>>, <<A, B>>>>, <<<<P>>, <<>>>>}

\* two callers of the core that share one raw-record list, one offer list,
\* one list of names and one supplier order
Callers == {1, 2}
SharedRawLists == {xs \in CleanInputs : Len(xs) <= 2}

\* ------------------------------------------------------------------------
\* The session of app.py (284-362): st.session_state and the handlers of its
\* two buttons; a DataFrame is its sequence of rows, <<>> the empty one
\* ------------------------------------------------------------------------
\* session state initialisation (284-292)
InitialSessionState ==
    [extracted_data |-> NullList,
     all_skus_from_pdfs |-> <<>>,
     selected_skus_for_comparison |-> <<>>,
     comparison_df |-> <<>>]

\* `if x:` of an Optional list
Truthy(list) == list.k = "list" /\ list.v # <<>>

\* "Reset previous" (304-307)
ResetForExtract_KeepTable(ss) ==
    [ss EXCEPT !.extracted_data = NullList,
               !.all_skus_from_pdfs = <<>>,
               !.selected_skus_for_comparison = <<>>]

ResetForExtract(ss) ==
    [ss EXCEPT !.extracted_data = NullList,
               !.all_skus_from_pdfs = <<>>,
               !.selected_skus_for_comparison = <<>>,
               !.comparison_df = <<>>]

\* lines 315-322, ss being the state with the new extracted_data and
\* all_items what preprocess_data did with it: an exception ends the run
PopulateSkus(ss, all_items) ==
    IF all_items.raised THEN [raised |-> TRUE, state |-> ss]
    ELSE IF all_items.items # <<>>
    THEN LET unique_sku_names ==
                 SortedTexts({all_items.items[i].sku_name : i \in 1..Len(all_items.items)})
         IN  [raised |-> FALSE,
              state |-> [ss EXCEPT !.all_skus_from_pdfs = unique_sku_names,
                                   !.selected_skus_for_comparison = unique_sku_names]]
    ELSE [raised |-> FALSE, state |-> ss]

\* the handler of extract_button (303-324); extracted_json_data is what
\* run_gemini_extraction returned: None, [] or a list of records
extract_button(ss, extracted_json_data) ==
    IF Truthy(extracted_json_data)
    THEN PopulateSkus([ResetForExtract(ss) EXCEPT !.extracted_data = extracted_json_data],
                      app_preprocess_data(extracted_json_data.v))
    ELSE [raised |-> FALSE, state |-> ResetForExtract(ss)]

\* lines 341-359, processed_items being what preprocess_data returned
TableFrom(ss, processed_items) ==
    IF processed_items.raised THEN [raised |-> TRUE, state |-> ss]
    ELSE IF processed_items.items # <<>>
    THEN LET unique_suppliers ==
                 SortedTexts({processed_items.items[i].supplier :
                                 i \in 1..Len(processed_items.items)})
         IN  [raised |-> FALSE,
              state |-> [ss EXCEPT !.comparison_df =
                            IF unique_suppliers = <<>> THEN <<>>
                            ELSE app_generate_comparison_table(
                                     ss.selected_skus_for_comparison,
                                     processed_items.items, unique_suppliers)]]
    ELSE [raised |-> FALSE, state |-> [ss EXCEPT !.comparison_df = <<>>]]

\* the handler of compare_button (338-362)
compare_button(ss) ==
    IF Truthy(ss.extracted_data)
    THEN TableFrom(ss, app_preprocess_data(ss.extracted_data.v))
    ELSE [raised |-> FALSE, state |-> [ss EXCEPT !.comparison_df = <<>>]]

\* what st.multiselect can return for the options (330-335): any of them,
\* each once, in the order they were picked
Selections(options) ==
    {sel \in SeqsUpTo(SeqToSet(options), Len(options)) :
        \A i, j \in 1..Len(sel) : sel[i] = sel[j] => i = j}

\* what run_gemini_extraction can return to the session: None (an error),
\* no record, or a list of records: offers of one product or of two, or a
\* single record that raises, is skipped or is emitted with a default
SessionRawLists ==
    {<<Base0>>, <<Base1, Base0>>}
        \cup {<<Base0, c>> : c \in CatalogRecords}
        \cup {<<d>> : d \in CoreDirtyRecords}
Extractions == {NullList, ListOf(<<>>)} \cup {ListOf(xs) : xs \in SessionRawLists}

\* ------------------------------------------------------------------------
\* State
\* ------------------------------------------------------------------------
VARIABLES
    raw_data_list,            \* the extracted records handed to preprocess_data
    pc,                       \* how far the run is, and of which revision
    processed_items,          \* the list preprocess_data returned
    origin,                   \* index in raw_data_list of each item's record
    target_sku_names,         \* arguments of generate_comparison_table
    display_suppliers_order,
    rows,                     \* output_data_rows of generate_comparison_table
    m_args,                   \* a direct call of calculate_item_metrics
    m_result,
    c_args,                   \* a direct call of another function
    c_result,
    session_state,            \* st.session_state of app.py
    uploaded_files            \* whether the file uploader of app.py holds files

vars == <<raw_data_list, pc, processed_items, origin, target_sku_names,
          display_suppliers_order, rows, m_args, m_result, c_args, c_result,
          session_state, uploaded_files>>

NoCall == [eff_rate |-> None, eff_disc |-> None, comparison_rate |-> None,
           called |-> FALSE]

Init ==
    /\ raw_data_list \in CleanInputs \cup DirtyInputs \cup SandwichInputs
    /\ pc = "start"
    /\ processed_items = <<>>
    /\ origin = <<>>
    /\ target_sku_names = <<>>
    /\ display_suppliers_order = <<>>
    /\ rows = <<>>
    /\ m_args = <<None, None, None, None>>
    /\ m_result = NoCall
    /\ session_state = <<>>
    /\ uploaded_files = FALSE
    /\ c_args = <<>>
    /\ c_result = <<>>

\* processed = preprocess_data(raw)                  (sku_processing.py)
Preprocess ==
    /\ pc = "start"
    /\ LET r == preprocess_data(raw_data_list)
       IN  /\ pc' = IF r.raised THEN "raised" ELSE "preprocessed"
           /\ processed_items' = r.items
           /\ origin' = r.origin
    /\ UNCHANGED <<raw_data_list, target_sku_names, display_suppliers_order,
                   rows, m_args, m_result, c_args, c_result,
                   session_state, uploaded_files>>

\* df = generate_comparison_table(names, processed, order)
Generate ==
    /\ pc = "preprocessed"
    /\ \E args \in TableArgs :
          /\ target_sku_names' = args[1]
          /\ display_suppliers_order' = args[2]
          /\ rows' = generate_comparison_table(args[1], processed_items, args[2])
    /\ pc' = "compared"
    /\ UNCHANGED <<raw_data_list, processed_items, origin, m_args, m_result,
                   c_args, c_result,
                   session_state, uploaded_files>>

\* the same two calls in app.py
AppPreprocess ==
    /\ pc = "start"
    /\ LET r == app_preprocess_data(raw_data_list)
       IN  /\ pc' = IF r.raised THEN "app_raised" ELSE "app_preprocessed"
           /\ processed_items' = r.items
           /\ origin' = r.origin
    /\ UNCHANGED <<raw_data_list, target_sku_names, display_suppliers_order,
                   rows, m_args, m_result, c_args, c_result,
                   session_state, uploaded_files>>

AppGenerate ==
    /\ pc = "app_preprocessed"
    /\ \E args \in TableArgs :
          /\ target_sku_names' = args[1]
          /\ display_suppliers_order' = args[2]
          /\ rows' = app_generate_comparison_table(args[1], processed_items, args[2])
    /\ pc' = "app_compared"
    /\ UNCHANGED <<raw_data_list, processed_items, origin, m_args, m_result,
                   c_args, c_result,
                   session_state, uploaded_files>>

Next == Preprocess \/ Generate \/ AppPreprocess \/ AppGenerate

Spec == Init /\ [][Next]_vars

\* a direct call of calculate_item_metrics(base_rate, discount, paid, free)
InitMetrics ==
    /\ raw_data_list = <<>>
    /\ pc = "metrics"
    /\ processed_items = <<>>
    /\ origin = <<>>
    /\ target_sku_names = <<>>
    /\ display_suppliers_order = <<>>
    /\ rows = <<>>
    /\ m_args \in MetricBaseRates \X MetricDiscounts \X MetricPaidQtys \X MetricFreeQtys
    /\ m_result = NoCall
    /\ session_state = <<>>
    /\ uploaded_files = FALSE
    /\ c_args = <<>>
    /\ c_result = <<>>

CallMetrics ==
    /\ pc = "metrics"
    /\ LET m == calculate_item_metrics(m_args[1], m_args[2], m_args[3], m_args[4])
       IN  m_result' = [eff_rate |-> m.eff_rate, eff_disc |-> m.eff_disc,
                        comparison_rate |-> m.comparison_rate, called |-> TRUE]
    /\ pc' = "metrics_done"
    /\ UNCHANGED <<raw_data_list, processed_items, origin, target_sku_names,
                   display_suppliers_order, rows, m_args, c_args, c_result,
                   session_state, uploaded_files>>

NextMetrics == CallMetrics

SpecMetrics == InitMetrics /\ [][NextMetrics]_vars

\* a direct call of parse_quantity_string(qty_str)
InitParse ==
    /\ raw_data_list = <<>>
    /\ pc = "parse"
    /\ processed_items = <<>>
    /\ origin = <<>>
    /\ target_sku_names = <<>>
    /\ display_suppliers_order = <<>>
    /\ rows = <<>>
    /\ m_args = <<None, None, None, None>>
    /\ m_result = NoCall
    /\ session_state = <<>>
    /\ uploaded_files = FALSE
    /\ c_args \in QtyInputs
    /\ c_result = <<>>

CallParse ==
    /\ pc = "parse"
    /\ c_result' = parse_quantity_string(c_args)
    /\ pc' = "parse_done"
    /\ UNCHANGED <<raw_data_list, processed_items, origin, target_sku_names,
                   display_suppliers_order, rows, m_args, m_result, c_args,
                   session_state, uploaded_files>>

NextParse == CallParse

SpecParse == InitParse /\ [][NextParse]_vars

\* a direct call of normalize_sku_names(sku_names, client)
InitNormalize ==
    /\ raw_data_list = <<>>
    /\ pc = "normalize"
    /\ processed_items = <<>>
    /\ origin = <<>>
    /\ target_sku_names = <<>>
    /\ display_suppliers_order = <<>>
    /\ rows = <<>>
    /\ m_args = <<None, None, None, None>>
    /\ m_result = NoCall
    /\ session_state = <<>>
    /\ uploaded_files = FALSE
    /\ c_args \in [sku_names : NameInputs, response : Responses]
    /\ c_result = <<>>

CallNormalize ==
    /\ pc = "normalize"
    /\ c_result' = normalize_sku_names(c_args.sku_names, c_args.response)
    /\ pc' = "normalize_done"
    /\ UNCHANGED <<raw_data_list, processed_items, origin, target_sku_names,
                   display_suppliers_order, rows, m_args, m_result, c_args,
                   session_state, uploaded_files>>

NextNormalize == CallNormalize

SpecNormalize == InitNormalize /\ [][NextNormalize]_vars

\* apply_canonical_names(offers, mapping), then once more on its result
InitApply ==
    /\ raw_data_list = <<>>
    /\ pc = "apply"
    /\ processed_items = <<>>
    /\ origin = <<>>
    /\ target_sku_names = <<>>
    /\ display_suppliers_order = <<>>
    /\ rows = <<>>
    /\ m_args = <<None, None, None, None>>
    /\ m_result = NoCall
    /\ session_state = <<>>
    /\ uploaded_files = FALSE
    /\ c_args \in [offers : ApplyOffers, mapping : NameMappings]
    /\ c_result = [once |-> <<>>, twice |-> <<>>]

Apply ==
    /\ pc = "apply"
    /\ c_result' = [c_result EXCEPT
                       !.once = apply_canonical_names(c_args.offers, c_args.mapping)]
    /\ pc' = "applied"
    /\ UNCHANGED <<raw_data_list, processed_items, origin, target_sku_names,
                   display_suppliers_order, rows, m_args, m_result, c_args,
                   session_state, uploaded_files>>

ApplyAgain ==
    /\ pc = "applied"
    /\ c_result' = [c_result EXCEPT
                       !.twice = apply_canonical_names(c_result.once, c_args.mapping)]
    /\ pc' = "applied_twice"
    /\ UNCHANGED <<raw_data_list, processed_items, origin, target_sku_names,
                   display_suppliers_order, rows, m_args, m_result, c_args,
                   session_state, uploaded_files>>

NextApply == Apply \/ ApplyAgain

SpecApply == InitApply /\ [][NextApply]_vars

\* preprocess_data and generate_comparison_table called with lists that may
\* be empty or None; offers_null: None is passed for all_processed_items
NoResult == [called |-> FALSE, raised |-> FALSE]

InitDirect ==
    /\ raw_data_list = <<>>
    /\ pc = "direct"
    /\ processed_items = <<>>
    /\ origin = <<>>
    /\ target_sku_names = <<>>
    /\ display_suppliers_order = <<>>
    /\ rows = <<>>
    /\ m_args = <<None, None, None, None>>
    /\ m_result = NoCall
    /\ session_state = <<>>
    /\ uploaded_files = FALSE
    /\ c_args \in [raw_data_list : OptRawLists, target_sku_names : OptNames,
                   display_suppliers_order : OptOrders, offers_null : BOOLEAN]
    /\ c_result = NoResult

DirectPreprocess ==
    /\ pc = "direct"
    /\ LET r == preprocess_data_opt(c_args.raw_data_list)
       IN  /\ pc' = IF r.raised THEN "direct_raised" ELSE "direct_preprocessed"
           /\ processed_items' = r.items
           /\ origin' = r.origin
    /\ raw_data_list' = c_args.raw_data_list.v
    /\ UNCHANGED <<target_sku_names, display_suppliers_order, rows, m_args,
                   m_result, c_args, c_result,
                   session_state, uploaded_files>>

DirectGenerate ==
    /\ pc = "direct_preprocessed"
    /\ LET offers == IF c_args.offers_null THEN NullList ELSE ListOf(processed_items)
           r == generate_comparison_table_opt(c_args.target_sku_names, offers,
                                              c_args.display_suppliers_order)
       IN  /\ rows' = r.rows
           /\ c_result' = [called |-> TRUE, raised |-> r.raised]
    /\ target_sku_names' = c_args.target_sku_names.v
    /\ display_suppliers_order' = c_args.display_suppliers_order.v
    /\ pc' = "direct_compared"
    /\ UNCHANGED <<raw_data_list, processed_items, origin, m_args, m_result, c_args,
                   session_state, uploaded_files>>

NextDirect == DirectPreprocess \/ DirectGenerate

SpecDirect == InitDirect /\ [][NextDirect]_vars

\* two callers share their inputs: the offer list is built once, then each
\* caller calls preprocess_data on the shared records and
\* generate_comparison_table on the shared offers, names and order, in any
\* order; c_args keeps the inputs as they were handed over
NotCalled == [pre |-> FALSE, raised |-> FALSE, items |-> <<>>, gen |-> FALSE, rows |-> <<>>]

InitShared ==
    /\ raw_data_list \in SharedRawLists
    /\ \E args \in TableArgs :
          /\ target_sku_names = args[1]
          /\ display_suppliers_order = args[2]
          /\ c_args = [raw_data_list |-> raw_data_list,
                       all_processed_items |-> <<>>,
                       target_sku_names |-> args[1],
                       display_suppliers_order |-> args[2]]
    /\ pc = "shared"
    /\ processed_items = <<>>
    /\ origin = <<>>
    /\ rows = <<>>
    /\ m_args = <<None, None, None, None>>
    /\ m_result = NoCall
    /\ session_state = <<>>
    /\ uploaded_files = FALSE
    /\ c_result = [c \in Callers |-> NotCalled]

SharePrepare ==
    /\ pc = "shared"
    /\ LET r == preprocess_data(raw_data_list)
       IN  /\ pc' = IF r.raised THEN "shared_raised" ELSE "shared_ready"
           /\ processed_items' = r.items
           /\ origin' = r.origin
           /\ c_args' = [c_args EXCEPT !.all_processed_items = r.items]
    /\ raw_data_list' = preprocess_data_args(raw_data_list)
    /\ UNCHANGED <<target_sku_names, display_suppliers_order, rows, m_args,
                   m_result, c_result,
                   session_state, uploaded_files>>

CallerPreprocess(c) ==
    /\ pc = "shared_ready"
    /\ ~c_result[c].pre
    /\ LET r == preprocess_data(raw_data_list)
       IN  c_result' = [c_result EXCEPT ![c].pre = TRUE, ![c].raised = r.raised,
                                        ![c].items = r.items]
    /\ raw_data_list' = preprocess_data_args(raw_data_list)
    /\ UNCHANGED <<pc, processed_items, origin, target_sku_names,
                   display_suppliers_order, rows, m_args, m_result, c_args,
                   session_state, uploaded_files>>

CallerGenerate(c) ==
    /\ pc = "shared_ready"
    /\ ~c_result[c].gen
    /\ c_result' = [c_result EXCEPT ![c].gen = TRUE,
                       ![c].rows = generate_comparison_table(
                           target_sku_names, processed_items, display_suppliers_order)]
    /\ LET after == generate_comparison_table_args(
                        target_sku_names, processed_items, display_suppliers_order)
       IN  /\ target_sku_names' = after.target_sku_names
           /\ processed_items' = after.all_processed_items
           /\ display_suppliers_order' = after.display_suppliers_order
    /\ UNCHANGED <<pc, raw_data_list, origin, rows, m_args, m_result, c_args,
                   session_state, uploaded_files>>

NextShared ==
    \/ SharePrepare
    \/ \E c \in Callers : CallerPreprocess(c)
    \/ \E c \in Callers : CallerGenerate(c)

SpecShared == InitShared /\ [][NextShared]_vars

\* the session of app.py: the user uploads or removes files, clicks
\* "1. Extract Data", changes the selection and clicks "2. Generate
\* Comparison Table", in any order the page allows; c_args remembers whether
\* a table was on display when Extract was last clicked
InitSession ==
    /\ session_state = InitialSessionState
    /\ uploaded_files = FALSE
    /\ pc = "session"
    /\ raw_data_list = <<>>
    /\ processed_items = <<>>
    /\ origin = <<>>
    /\ target_sku_names = <<>>
    /\ display_suppliers_order = <<>>
    /\ rows = <<>>
    /\ m_args = <<None, None, None, None>>
    /\ m_result = NoCall
    /\ c_args = [table_before |-> FALSE]
    /\ c_result = <<>>

\* the file uploader (297-300)
Upload ==
    /\ uploaded_files' = ~uploaded_files
    /\ UNCHANGED <<raw_data_list, pc, processed_items, origin, target_sku_names,
                   display_suppliers_order, rows, m_args, m_result, c_args,
                   c_result, session_state>>

\* a click on extract_button, shown while files are uploaded (302-324)
ExtractClick ==
    /\ uploaded_files
    /\ \E extracted_json_data \in Extractions :
          LET r == extract_button(session_state, extracted_json_data)
          IN  /\ session_state' = r.state
              /\ pc' = IF r.raised THEN "extract_raised"
                       ELSE IF Truthy(extracted_json_data) THEN "extracted"
                       ELSE "extract_failed"
    /\ c_args' = [table_before |-> session_state.comparison_df # <<>>]
    /\ UNCHANGED <<raw_data_list, processed_items, origin, target_sku_names,
                   display_suppliers_order, rows, m_args, m_result, c_result,
                   uploaded_files>>

\* the multiselect, shown while there are SKUs to select (328-335)
Select ==
    /\ session_state.all_skus_from_pdfs # <<>>
    /\ \E sel \in Selections(session_state.all_skus_from_pdfs) :
          session_state' = [session_state EXCEPT !.selected_skus_for_comparison = sel]
    /\ pc' = "selected"
    /\ UNCHANGED <<raw_data_list, processed_items, origin, target_sku_names,
                   display_suppliers_order, rows, m_args, m_result, c_args,
                   c_result, uploaded_files>>

\* a click on compare_button, shown while SKUs are selected (337-362)
GenerateClick ==
    /\ session_state.all_skus_from_pdfs # <<>>
    /\ session_state.selected_skus_for_comparison # <<>>
    /\ LET r == compare_button(session_state)
       IN  /\ session_state' = r.state
           /\ pc' = IF r.raised THEN "generate_raised" ELSE "generated"
    /\ UNCHANGED <<raw_data_list, processed_items, origin, target_sku_names,
                   display_suppliers_order, rows, m_args, m_result, c_args,
                   c_result, uploaded_files>>

NextSession == Upload \/ ExtractClick \/ Select \/ GenerateClick

SpecSession == InitSession /\ [][NextSession]_vars

\* ------------------------------------------------------------------------
\* Properties
\* ------------------------------------------------------------------------
Items == 1..Len(processed_items)
RowIds == 1..Len(rows)

\* the candidate set of row r: the offers whose name is the row's name
Cand(r) == {i \in Items : processed_items[i].sku_name = rows[r].sku_name}

\* amount / (paid_qty + free_qty) of offer i, as the fraction it was built from
HasAmountRate(i) == processed_items[i].calculated_rate_per_qty.k = "num"
AmountRateLeq(i, j) ==
    processed_items[i].calculated_rate_per_qty.n * processed_items[j].calculated_rate_per_qty.d
      <= processed_items[j].calculated_rate_per_qty.n * processed_items[i].calculated_rate_per_qty.d

\* the discount-derived normalized comparison price of offer i, in cents
HasComparisonPrice(i) == processed_items[i].comparison_eff_rate.k = "num"
ComparisonPrice(i) == processed_items[i].comparison_eff_rate.v

\* the price the revision that ran ranks by: usable, and at most that of j
Usable(i) == IF pc = "compared" THEN HasAmountRate(i) ELSE HasComparisonPrice(i)
PriceLeq(i, j) ==
    IF pc = "compared" THEN AmountRateLeq(i, j)
    ELSE ComparisonPrice(i) <= ComparisonPrice(j)
Cheapest(r) == {i \in Cand(r) : Usable(i) /\ \A j \in Cand(r) : Usable(j) => PriceLeq(i, j)}
LeastPaid(S) == {i \in S : \A j \in S : processed_items[i].paid_qty <= processed_items[j].paid_qty}

\* distinct invoice codes of a supplier over the whole offer list
CatalogBreadth(s) ==
    Cardinality({processed_items[i].sku : i \in {j \in Items : processed_items[j].supplier = s}})
Broadest(S) ==
    {i \in S : \A j \in S : CatalogBreadth(processed_items[i].supplier)
                               >= CatalogBreadth(processed_items[j].supplier)}

Winner(r) == rows[r].best_deal
WinnerIsSupplierOf(r, S) ==
    /\ Winner(r).k = "text"
    /\ \E i \in S : processed_items[i].supplier = Winner(r).v

C2_FallbackToComparisonPrice ==
    pc = "compared" =>
        \A r \in RowIds :
            (/\ \E i \in Cand(r) : ~HasAmountRate(i)
             /\ \E i \in Cand(r) : HasComparisonPrice(i)) =>
                WinnerIsSupplierOf(r,
                    {i \in Cand(r) :
                        /\ HasComparisonPrice(i)
                        /\ \A j \in Cand(r) :
                              HasComparisonPrice(j) => ComparisonPrice(i) <= ComparisonPrice(j)})

\* C3: among the candidates of a row that tie on the primary price key, the
\* offer with the smaller paid_qty ranks first; so a row with a usable price
\* has as winner the supplier of an offer that, among the cheapest
\* candidates, has the least paid_qty.
C3_TieBrokenByPaidQty ==
    pc \in {"compared", "app_compared"} =>
        \A r \in RowIds :
            /\ \A a, b \in 1..Len(rows[r].offers) :
                  LET x == rows[r].offers[a]
                      y == rows[r].offers[b]
                      tie == IF pc = "compared"
                             THEN /\ x.calculated_rate_per_qty.k = y.calculated_rate_per_qty.k
                                  /\ x.calculated_rate_per_qty.n * y.calculated_rate_per_qty.d
                                       = y.calculated_rate_per_qty.n * x.calculated_rate_per_qty.d
                             ELSE \/ x.comparison_eff_rate = y.comparison_eff_rate
                                  \/ /\ x.comparison_eff_rate.k # "num"
                                     /\ y.comparison_eff_rate.k # "num"
                  IN  (tie /\ x.paid_qty < y.paid_qty) => a < b
            /\ Cheapest(r) # {} => WinnerIsSupplierOf(r, LeastPaid(Cheapest(r)))

\* a row where two suppliers tie on the price and the one listed second
\* asks for the smaller paid quantity and wins
C3_Witness ==
    /\ pc \in {"compared", "app_compared"}
    /\ \E r \in RowIds :
          \E i, j \in Cheapest(r) :
              /\ i < j
              /\ processed_items[j].paid_qty < processed_items[i].paid_qty
              /\ processed_items[i].supplier # processed_items[j].supplier
              /\ Winner(r).k = "text"
              /\ Winner(r).v = processed_items[j].supplier

\* C4: among candidates that tie on price and on paid_qty, the winner is the
\* supplier with the larger count of distinct invoice codes, the count being
\* taken over the entire offer list.
C4_TieBrokenByCatalogBreadth ==
    pc = "compared" =>
        \A r \in RowIds :
            Cheapest(r) # {} =>
                WinnerIsSupplierOf(r, Broadest(LeastPaid(Cheapest(r))))

\* a row where two suppliers tie on price and paid_qty, the one listed second
\* wins, and its larger count comes from an offer of another product that
\* was not requested
C4_Witness ==
    /\ pc = "compared"
    /\ \E r \in RowIds :
          \E i, j \in LeastPaid(Cheapest(r)) :
              /\ i < j
              /\ processed_items[i].supplier # processed_items[j].supplier
              /\ CatalogBreadth(processed_items[j].supplier)
                    > CatalogBreadth(processed_items[i].supplier)
              /\ Cardinality({processed_items[k].sku : k \in
                    {m \in Cand(r) : processed_items[m].supplier = processed_items[j].supplier}})
                    = CatalogBreadth(processed_items[i].supplier)
              /\ \E k \in Items :
                    /\ processed_items[k].supplier = processed_items[j].supplier
                    /\ \A q \in RowIds : processed_items[k].sku_name # rows[q].sku_name
              /\ Winner(r).k = "text"
              /\ Winner(r).v = processed_items[j].supplier

\* C5: a row has a winner exactly when one of its candidates has a usable
\* (finite) ranking key; the winner is the supplier of the first-ranked
\* candidate, whose key is then finite.
C5_WinnerIffUsablePrice ==
    pc \in {"compared", "app_compared"} =>
        \A r \in RowIds :
            /\ (Winner(r).k = "text") <=> (\E i \in Cand(r) : Usable(i))
            /\ Winner(r).k \in {"text", "dash"}
            /\ Winner(r).k = "text" =>
                  /\ Len(rows[r].offers) > 0
                  /\ Winner(r).v = rows[r].offers[1].supplier
                  /\ IF pc = "compared"
                     THEN rows[r].offers[1].calculated_rate_per_qty.k = "num"
                     ELSE rows[r].offers[1].comparison_eff_rate.k = "num"

\* a table with a row that has candidates, none with a usable price, and no
\* winner, next to a row that has a winner
C5_Witness ==
    /\ pc \in {"compared", "app_compared"}
    /\ \E r, q \in RowIds :
          /\ Cand(r) # {}
          /\ \A i \in Cand(r) : ~Usable(i)
          /\ Winner(r).k = "dash"
          /\ Winner(q).k = "text"

Returned == pc \in {"preprocessed", "compared", "app_preprocessed", "app_compared"}
ReturnedNew == pc \in {"preprocessed", "compared"}
Records == 1..Len(raw_data_list)
Emitted == {origin[j] : j \in 1..Len(origin)}

\* the quantities the revision that ran resolves for a record
ExplicitQty(rec) ==
    /\ rec.paid_qty.k \in {"int", "str"}
    /\ rec.free_qty.k \in {"int", "str"}
ResolvedZero(rec) ==
    IF ReturnedNew
    THEN ExplicitQty(rec) /\ rec.paid_qty.v = 0 /\ rec.free_qty.v = 0
    ELSE LET q == parse_quantity_string(rec.qty_str)
         IN  ~q.raised /\ q.paid = 0 /\ q.free = 0

\* C6: no emitted Offer has paid_qty = 0 and free_qty = 0, and a record whose
\* resolved quantities are both 0 yields no Offer, whatever its other fields.
C6_NoZeroQuantityOffer ==
    Returned =>
        /\ \A i \in Items :
              ~(processed_items[i].paid_qty = 0 /\ processed_items[i].free_qty = 0)
        /\ \A k \in Emitted : ~ResolvedZero(raw_data_list[k])

\* a run that returned offers from a list holding a record with both
\* quantities 0, once with the other fields valid and once with a bad MRP
C6_Witness ==
    /\ Returned
    /\ Len(processed_items) > 0
    /\ \E k \in Records \ Emitted :
          /\ ResolvedZero(raw_data_list[k])
          /\ raw_data_list[k].mrp.k = "str"

\* C7: preprocess_data never raises for a data-quality problem: it returns a
\* list for every list of raw records, and every well-formed record of the
\* input is processed.
C7_NeverRaises ==
    pc # "start" =>
        /\ pc \notin {"raised", "app_raised"}
        /\ \A k \in Records :
              raw_data_list[k] \in CleanRecords \cup CatalogRecords => k \in Emitted

\* C8: the quantities of an emitted Offer are the explicit paid_qty / free_qty
\* integers of its record, whatever the record's quantity string says, and a
\* record with paid_qty or free_qty missing yields no Offer.
C8_ExplicitQuantitiesOnly ==
    ReturnedNew =>
        \A j \in 1..Len(origin) :
            LET rec == raw_data_list[origin[j]]
            IN  /\ ExplicitQty(rec)
                /\ processed_items[j].paid_qty = rec.paid_qty.v
                /\ processed_items[j].free_qty = rec.free_qty.v

\* a run that emitted an Offer for a record whose quantity string reads
\* differently from its explicit integers, and skipped a record that has a
\* paid_qty but no free_qty
C8_Witness ==
    /\ ReturnedNew
    /\ \E j \in 1..Len(origin) :
          LET rec == raw_data_list[origin[j]]
              q == parse_quantity_string(rec.qty_str)
          IN  /\ rec.qty_str.k = "str"
              /\ ~q.raised
              /\ <<q.paid, q.free>> # <<0, 0>>
              /\ <<q.paid, q.free>>
                    # <<processed_items[j].paid_qty, processed_items[j].free_qty>>
    /\ \E k \in Records \ Emitted :
          /\ raw_data_list[k].paid_qty.k = "int"
          /\ raw_data_list[k].free_qty.k \in {"missing", "null"}

\* the value of a price or discount field that is absent, empty or a numeric
\* string
FieldValue(fld) == IF fld.k = "str" THEN fld.v ELSE 0
TextFieldsOK(rec) ==
    \A fld \in {rec.sku_supplier, rec.sku_invoice, rec.sku_name, rec.batch_number} :
        fld.k \in {"missing", "str"}
PriceFieldsTyped(rec) ==
    \A fld \in {rec.mrp, rec.base_rate, rec.base_discount_percent} :
        fld.k \in {"missing", "null", "empty", "str", "bad"}
PriceFieldBad(rec) ==
    \E fld \in {rec.mrp, rec.base_rate, rec.base_discount_percent} : fld.k = "bad"

\* C9: in preprocess_data of sku_processing.py an empty or missing MRP, base
\* rate or discount percent becomes 0.0 in the emitted Offer, and a
\* non-numeric value in one of the three rejects that record only: the call
\* returns and the other records are processed.
C9_PriceFieldDefaults ==
    (/\ pc \in {"preprocessed", "raised"}
     /\ \A k \in Records :
           TextFieldsOK(raw_data_list[k]) /\ PriceFieldsTyped(raw_data_list[k])) =>
        /\ pc = "preprocessed"
        /\ \A k \in Records :
              LET rec == raw_data_list[k]
              IN  IF PriceFieldBad(rec) THEN k \notin Emitted
                  ELSE (ExplicitQty(rec) /\ ~ResolvedZero(rec)) =>
                          \E j \in 1..Len(origin) :
                              /\ origin[j] = k
                              /\ processed_items[j].mrp = FieldValue(rec.mrp)
                              /\ processed_items[j].base_rate = FieldValue(rec.base_rate)
                              /\ FieldValue(rec.base_rate) >= 0 =>
                                    processed_items[j].eff_disc_display_column
                                      = Num(10 * FieldValue(rec.base_discount_percent))

\* c is an integer nearest to n / d
IsNearest(c, n, d) ==
    IF d > 0 THEN 2 * c * d - 2 * n <= d /\ 2 * n - 2 * c * d <= d
    ELSE 2 * c * (-d) + 2 * n <= -d /\ -2 * n - 2 * c * (-d) <= -d

\* C10: for a non-null, non-negative base_rate and non-null quantities,
\* calculate_item_metrics returns (round2(base_rate * (1 - discount / 100)),
\* round2(discount), round2(paid_qty * effective price / (paid_qty + free_qty)))
\* with a null discount taken as 0; when paid_qty + free_qty = 0 the
\* comparison price is +infinity if paid_qty > 0 and 0.0 otherwise;
\* (100, 10, 10, 0) gives (90.00, 10.00, 90.00) and (100, 0, 10, 2) gives
\* (100.00, 0.00, 83.33).
C10_RateFormula ==
    m_result.called =>
        LET b == m_args[1]
            p == m_args[3]
            f == m_args[4]
            disc == IF m_args[2].k = "none" THEN 0 ELSE m_args[2].v
        IN  /\ (b.k = "num" /\ b.v >= 0 /\ p.k = "num" /\ f.k = "num") =>
                  /\ m_result.eff_rate.k = "num"
                  /\ IsNearest(m_result.eff_rate.v, b.v * (1000 - disc), 1000)
                  /\ m_result.eff_disc = Num(10 * disc)
                  /\ IF p.v + f.v = 0
                     THEN m_result.comparison_rate = IF p.v > 0 THEN Inf ELSE Num(0)
                     ELSE /\ m_result.comparison_rate.k = "num"
                          /\ IsNearest(m_result.comparison_rate.v,
                                       p.v * b.v * (1000 - disc), 1000 * (p.v + f.v))
            /\ m_args = <<Num(10000), Num(100), Num(10), Num(0)>> =>
                  /\ m_result.eff_rate = Num(9000)
                  /\ m_result.eff_disc = Num(1000)
                  /\ m_result.comparison_rate = Num(9000)
            /\ m_args = <<Num(10000), Num(0), Num(10), Num(2)>> =>
                  /\ m_result.eff_rate = Num(10000)
                  /\ m_result.eff_disc = Num(0)
                  /\ m_result.comparison_rate = Num(8333)

\* the call (100, 0, 10, 2), whose free goods lower the comparison price to
\* 83.33
C10_Witness ==
    /\ m_result.called
    /\ m_args = <<Num(10000), Num(0), Num(10), Num(2)>>
    /\ m_result.comparison_rate = Num(8333)

AllNull == m_result.eff_rate = None /\ m_result.eff_disc = None
              /\ m_result.comparison_rate = None
NoneNull == m_result.eff_rate # None /\ m_result.eff_disc # None
               /\ m_result.comparison_rate # None

\* C11: calculate_item_metrics returns (None, None, None) exactly when
\* base_rate is None, base_rate is negative, or paid_qty or free_qty is None;
\* in every other call, a None discount included, none of the three results
\* is None; (-5, 0, 1, 0) gives (None, None, None).
C11_AllNullExactlyOnInvalid ==
    m_result.called =>
        LET invalid == \/ m_args[1] = None
                       \/ (m_args[1].k = "num" /\ m_args[1].v < 0)
                       \/ m_args[3] = None
                       \/ m_args[4] = None
        IN  /\ invalid <=> AllNull
            /\ ~invalid => NoneNull
            /\ m_args = <<Num(-500), Num(0), Num(1), Num(0)>> => AllNull

\* the call (-5, 0, 1, 0), all-null only because of the negative base rate
C11_Witness ==
    /\ m_result.called
    /\ m_args = <<Num(-500), Num(0), Num(1), Num(0)>>
    /\ AllNull

\* the decimal value of a text of digit characters
DecimalValue(ds) ==
    LET Pow10[e \in 0..Len(ds)] == IF e = 0 THEN 1 ELSE 10 * Pow10[e - 1]
        Sum[i \in 0..Len(ds)] ==
            IF i = 0 THEN 0
            ELSE Sum[i - 1] + DigitVal(ds[i]) * Pow10[Len(ds) - i]
    IN  Sum[Len(ds)]

IsDigit(c) == c \in Digits
AllIn(s, lo, hi, cs) == \A i \in lo..hi : s[i] \in cs

\* s is t without its leading and trailing whitespace
IsTrimOf(s, t) ==
    \E i \in 0..Len(t) : \E j \in i..Len(t) :
        /\ s = SubSeq(t, i + 1, j)
        /\ AllIn(t, 1, i, {" "})
        /\ AllIn(t, j + 1, Len(t), {" "})
        /\ s # <<>> => (s[1] # " " /\ s[Len(s)] # " ")

\* s begins with the digits da, optional whitespace, "+", optional
\* whitespace, the digits db, and db is followed by no further digit
BeginsWithPlusForm(s, da, db) ==
    \E i \in 1..Len(s) : \E j \in i..Len(s) : \E k \in j..Len(s) : \E l \in k..Len(s) :
        /\ j + 1 <= Len(s) /\ k >= j + 1 /\ l >= k + 1
        /\ AllIn(s, 1, i, Digits) /\ da = SubSeq(s, 1, i)
        /\ AllIn(s, i + 1, j, {" "})
        /\ s[j + 1] = "+"
        /\ AllIn(s, j + 2, k, {" "})
        /\ AllIn(s, k + 1, l, Digits) /\ db = SubSeq(s, k + 1, l)
        /\ l < Len(s) => ~IsDigit(s[l + 1])

\* s begins with the digits da, followed by no further digit
BeginsWithDigits(s, da) ==
    \E i \in 1..Len(s) :
        /\ AllIn(s, 1, i, Digits) /\ da = SubSeq(s, 1, i)
        /\ i < Len(s) => ~IsDigit(s[i + 1])

SubTexts(s) == {SubSeq(s, i, j) : i \in 1..(Len(s) + 1), j \in 0..Len(s)}

\* what the documentation says parse_quantity_string returns for a text
\* whose digit runs are ordinary numbers
ParsesAsDocumented(t, paid, free) ==
    \E s \in SubTexts(t) :
        /\ IsTrimOf(s, t)
        /\ IF \E da, db \in SubTexts(s) : BeginsWithPlusForm(s, da, db)
           THEN \E da, db \in SubTexts(s) :
                   /\ BeginsWithPlusForm(s, da, db)
                   /\ paid = DecimalValue(da) /\ free = DecimalValue(db)
           ELSE IF \E da \in SubTexts(s) : BeginsWithDigits(s, da)
           THEN \E da \in SubTexts(s) :
                   /\ BeginsWithDigits(s, da)
                   /\ paid = DecimalValue(da) /\ free = 0
           ELSE paid = 0 /\ free = 0

HasLongDigits(t) == \E i \in 1..Len(t) : t[i] = LongDigits

\* C12: parse_quantity_string raises for no input; it returns (0, 0) for None
\* and for the empty string, (a, b) when the trimmed input begins with
\* digits a, optional whitespace, "+", optional whitespace, digits b, (a, 0)
\* when it begins with digits a but not with that pattern, and (0, 0)
\* otherwise, whatever text follows the leading match.
C12_ParseQuantity ==
    pc = "parse_done" =>
        /\ ~c_result.raised
        /\ IF c_args.k = "null" \/ c_args.v = <<>>
           THEN c_result.paid = 0 /\ c_result.free = 0
           ELSE ParsesAsDocumented(c_args.v, c_result.paid, c_result.free)

\* the same statement for the inputs whose digit runs int() accepts
C12_ParseQuantityOfShortRuns ==
    (pc = "parse_done" /\ ~HasLongDigits(c_args.v)) =>
        /\ ~c_result.raised
        /\ IF c_args.k = "null" \/ c_args.v = <<>>
           THEN c_result.paid = 0 /\ c_result.free = 0
           ELSE ParsesAsDocumented(c_args.v, c_result.paid, c_result.free)

\* C13: every Offer preprocess_data emits has paid_qty >= 0, free_qty >= 0,
\* mrp >= 0 and base_rate >= 0, whatever the raw records hold, negative
\* numbers in their quantity and price fields included.
C13_OfferFieldsNonNegative ==
    Returned =>
        \A i \in Items :
            /\ processed_items[i].paid_qty >= 0
            /\ processed_items[i].free_qty >= 0
            /\ processed_items[i].mrp >= 0
            /\ processed_items[i].base_rate >= 0

CellFields == {"MRP", "BaseRate", "EffRate", "EffDisc", "Qty", "SKUCode",
               "BatchNumber", "CalcRate"}

\* C14: every row generate_comparison_table of sku_processing.py emits has
\* one cell-group for each supplier of display_suppliers_order and for no
\* other, each with the eight fields MRP, Base Rate, Eff. Rate, Eff. Disc%,
\* Qty, SKU Code, Batch Number and Calc. Rate/Qty; the group of a supplier
\* with no offer of the row's name holds "-" in every field, and the group
\* of a supplier with such an offer shows that offer's invoice code.
C14_OneCellGroupPerSupplier ==
    pc = "compared" =>
        \A r \in RowIds :
            /\ DOMAIN rows[r].cells = SeqToSet(display_suppliers_order)
            /\ \A s \in DOMAIN rows[r].cells :
                  /\ DOMAIN rows[r].cells[s] = CellFields
                  /\ IF \E i \in Cand(r) : processed_items[i].supplier = s
                     THEN \E i \in Cand(r) :
                             /\ processed_items[i].supplier = s
                             /\ rows[r].cells[s].SKUCode = Text(processed_items[i].sku)
                             /\ rows[r].cells[s].Qty.k = "qty"
                     ELSE \A f \in CellFields : rows[r].cells[s][f] = Dash

\* a row whose first listed supplier has an offer of the row's name and
\* whose second has none
C14_Witness ==
    /\ pc = "compared"
    /\ Len(display_suppliers_order) = 2
    /\ \E r \in RowIds :
          /\ \E i \in Cand(r) : processed_items[i].supplier = display_suppliers_order[1]
          /\ \A i \in Cand(r) : processed_items[i].supplier # display_suppliers_order[2]
          /\ \A f \in CellFields : rows[r].cells[display_suppliers_order[2]][f] = Dash
          /\ rows[r].cells[display_suppliers_order[1]].MRP # Dash

\* C15: generate_comparison_table emits exactly one row per entry of
\* target_sku_names, in the order the names are supplied: row r is the row
\* of the r-th name, also when that name matches no offer.
C15_OneRowPerNameInOrder ==
    pc \in {"compared", "app_compared"} =>
        /\ Len(rows) = Len(target_sku_names)
        /\ \A r \in RowIds : rows[r].sku_name = target_sku_names[r]

\* a table of two rows whose names were supplied in descending order, the
\* first matching no offer and the second matching one
C15_Witness ==
    /\ pc \in {"compared", "app_compared"}
    /\ Len(rows) = 2
    /\ target_sku_names = <<Q, P>>
    /\ rows[1].sku_name = Q
    /\ Cand(1) = {}
    /\ Cand(2) # {}

\* the text and price fields of an Offer are those of the record
NoSpace(t) == \A i \in 1..Len(t) : t[i] # " "
BuiltFrom(item, rec) ==
    /\ (rec.sku_supplier.k = "str" /\ NoSpace(rec.sku_supplier.v)) =>
          item.supplier = rec.sku_supplier.v
    /\ (rec.sku_invoice.k = "str" /\ NoSpace(rec.sku_invoice.v)) =>
          item.sku = rec.sku_invoice.v
    /\ (rec.sku_name.k = "str" /\ NoSpace(rec.sku_name.v)) =>
          item.sku_name = rec.sku_name.v
    /\ rec.mrp.k = "str" => item.mrp = rec.mrp.v
    /\ rec.base_rate.k = "str" => item.base_rate = rec.base_rate.v

\* preprocess_data has just returned its list
JustReturned == pc \in {"preprocessed", "app_preprocessed"}

\* C16: preprocess_data is a stable filter: the emitted Offers are built from
\* records at strictly increasing positions of the input list, so at most
\* one Offer per record and in input order.
C16_StableFilter ==
    JustReturned =>
        /\ Len(origin) = Len(processed_items)
        /\ \A j \in 1..Len(origin) :
              /\ origin[j] \in Records
              /\ BuiltFrom(processed_items[j], raw_data_list[origin[j]])
        /\ \A j, k \in 1..Len(origin) : j < k => origin[j] < origin[k]
        /\ \E f \in [Items -> Records] :
              /\ \A j, k \in Items : j < k => f[j] < f[k]
              /\ \A j \in Items : BuiltFrom(processed_items[j], raw_data_list[f[j]])

\* a list of three records whose second is rejected: the Offers are those of
\* the first and the third record, in that order
C16_Witness ==
    /\ JustReturned
    /\ Len(raw_data_list) = 3
    /\ origin = <<1, 3>>
    /\ processed_items[1].supplier = B
    /\ processed_items[2].supplier = A

\* the canonical strings the response gives for a name
Responded(name) ==
    IF c_args.response.k # "ok" THEN {}
    ELSE {c_args.response.mappings[i].normalized_sku_name :
            i \in {j \in 1..Len(c_args.response.mappings) :
                     c_args.response.mappings[j].original_sku_name = name}}

\* C17: the mapping normalize_sku_names returns is total over the names it
\* was given, whatever the response (complete, partial, empty, with names
\* that were not sent, or a raised error): its keys are exactly the given
\* names, each mapped to a canonical string the response gives for it, or to
\* itself when the response has no entry for it.
C17_MappingTotal ==
    pc = "normalize_done" =>
        /\ DOMAIN c_result = SeqToSet(c_args.sku_names)
        /\ \A name \in SeqToSet(c_args.sku_names) :
              IF Responded(name) = {} THEN c_result[name] = name
              ELSE c_result[name] \in Responded(name)

\* two names sent, and a response with an entry for the first and for a
\* name that was not sent, but none for the second
C17_Witness ==
    /\ pc = "normalize_done"
    /\ c_args.sku_names = <<P, Q>>
    /\ c_args.response = RespOK(<<Mapping(X, Cn), Mapping(P, Cn)>>)
    /\ c_result[P] = Cn
    /\ c_result[Q] = Q

\* the names before, after one and after two applications of the mapping
NameBefore(j) == c_args.offers[j].sku_name
NameOnce(j) == c_result.once[j].sku_name
NameTwice(j) == c_result.twice[j].sku_name
HasEntry(name) == name \in DOMAIN c_args.mapping

C19_SupplierNeverEmpty ==
    Returned =>
        \A j \in 1..Len(origin) :
            LET rec == raw_data_list[origin[j]]
            IN  /\ processed_items[j].supplier # <<>>
                /\ rec.sku_supplier.k = "missing" =>
                      processed_items[j].supplier = UNKNOWN_SUPPLIER
                /\ rec.sku_invoice.k = "missing" =>
                      processed_items[j].sku = UNKNOWN_SKU
                /\ (ReturnedNew /\ rec.batch_number.k = "missing") =>
                      processed_items[j].batch_number = NA

\* the same statement without the records whose supplier is an empty or
\* blank string
C19_SentinelsForAbsentKeys ==
    Returned =>
        \A j \in 1..Len(origin) :
            LET rec == raw_data_list[origin[j]]
            IN  /\ rec.sku_supplier.k = "missing" =>
                      processed_items[j].supplier = UNKNOWN_SUPPLIER
                /\ rec.sku_invoice.k = "missing" =>
                      processed_items[j].sku = UNKNOWN_SKU
                /\ (ReturnedNew /\ rec.batch_number.k = "missing") =>
                      processed_items[j].batch_number = NA

EmptyOrNull(arg) == arg.k = "null" \/ arg.v = <<>>
NoOffers == c_args.offers_null \/ processed_items = <<>>

\* C20: preprocess_data returns an empty Offer list, without raising, for an
\* empty list and for None; generate_comparison_table raises for no
\* arguments, and when target_sku_names is empty or None it returns no row,
\* when there are no offers (an empty list or None) every row it returns
\* holds only placeholders and no winner, and when display_suppliers_order
\* is empty or None its rows have no cell-group.
C20_EmptyOrNullInputsNeverRaise ==
    /\ pc # "direct_raised"
    /\ (pc \in {"direct_preprocessed", "direct_compared"}
          /\ EmptyOrNull(c_args.raw_data_list)) => processed_items = <<>>
    /\ pc = "direct_compared" =>
          /\ ~c_result.raised
          /\ EmptyOrNull(c_args.target_sku_names) => rows = <<>>
          /\ NoOffers =>
                \A r \in RowIds :
                    /\ rows[r].best_deal = Dash
                    /\ rows[r].original_skus = {}
                    /\ \A s \in DOMAIN rows[r].cells : rows[r].cells[s] = PlaceholderCells
          /\ EmptyOrNull(c_args.display_suppliers_order) =>
                \A r \in RowIds : DOMAIN rows[r].cells = {}

\* the same statement for the calls in which no list is None
C20_EmptyInputsNeverRaise ==
    (/\ pc = "direct_compared"
     /\ ~c_args.offers_null
     /\ c_args.target_sku_names.k = "list"
     /\ c_args.display_suppliers_order.k = "list") =>
          /\ ~c_result.raised
          /\ c_args.target_sku_names.v = <<>> => rows = <<>>
          /\ processed_items = <<>> =>
                \A r \in RowIds :
                    /\ rows[r].best_deal = Dash
                    /\ rows[r].original_skus = {}
                    /\ \A s \in DOMAIN rows[r].cells : rows[r].cells[s] = PlaceholderCells
          /\ c_args.display_suppliers_order.v = <<>> =>
                \A r \in RowIds : DOMAIN rows[r].cells = {}

RecordOf(j) == raw_data_list[origin[j]]
HasAmount(rec) == rec.amount.k \in {"int", "str"}
DiscountOf(rec) ==
    IF rec.base_discount_percent.k = "str" THEN rec.base_discount_percent.v ELSE 0
SamePricing(r1, r2) ==
    /\ r1.base_rate = r2.base_rate
    /\ r1.base_discount_percent = r2.base_discount_percent
    /\ r1.paid_qty = r2.paid_qty
    /\ r1.free_qty = r2.free_qty

\* C22: an Offer emitted by preprocess_data of sku_processing.py carries the
\* amount-based rate amount / (paid_qty + free_qty) when its record has an
\* amount and the quantity sum is positive, and no amount-based rate
\* otherwise; its discount-derived comparison price is there whether or not
\* the amount-based rate is, has the value of the price formula, and is the
\* same for records that differ in their amount only.
C22_AmountRateAndComparisonPrice ==
    pc = "preprocessed" =>
        /\ \A j \in Items :
              LET item == processed_items[j]
                  rec == RecordOf(j)
                  total == item.paid_qty + item.free_qty
              IN  /\ IF HasAmount(rec) /\ total > 0
                     THEN /\ item.calculated_rate_per_qty.k = "num"
                          /\ item.calculated_rate_per_qty.d > 0
                          /\ item.calculated_rate_per_qty.n * total
                               = rec.amount.v * item.calculated_rate_per_qty.d
                     ELSE item.calculated_rate_per_qty.k = "none"
                  /\ item.base_rate >= 0 => item.comparison_eff_rate.k # "none"
                  /\ (item.base_rate >= 0 /\ item.paid_qty >= 0 /\ total > 0) =>
                        /\ item.comparison_eff_rate.k = "num"
                        /\ IsNearest(item.comparison_eff_rate.v,
                                     item.paid_qty * item.base_rate * (1000 - DiscountOf(rec)),
                                     1000 * total)
        /\ \A j, k \in Items :
              SamePricing(RecordOf(j), RecordOf(k)) =>
                  processed_items[j].comparison_eff_rate
                      = processed_items[k].comparison_eff_rate

\* two Offers of one list with the same pricing, one with an amount and one
\* without: the first has an amount-based rate, the second none, and both
\* carry the comparison price
C22_Witness ==
    /\ pc = "preprocessed"
    /\ \E j, k \in Items :
          /\ SamePricing(RecordOf(j), RecordOf(k))
          /\ processed_items[j].calculated_rate_per_qty.k = "num"
          /\ processed_items[k].calculated_rate_per_qty.k = "none"
          /\ processed_items[j].comparison_eff_rate.k = "num"
          /\ processed_items[k].comparison_eff_rate.k = "num"

\* the codes a row's Original SKUs value lists: the texts between its
\* separators, none for the empty value
RECURSIVE Listed(_)
Listed(value) ==
    IF value = <<>> THEN <<>>
    ELSE LET n == SpanLen(value, SeqToSet(value) \ {Sep})
         IN  IF n = Len(value) THEN <<value>>
             ELSE <<SubSeq(value, 1, n)>> \o
                  (IF n + 1 = Len(value) THEN <<<<>>>>
                   ELSE Listed(SubSeq(value, n + 2, Len(value))))
NoRepeat(s) == \A i, j \in 1..Len(s) : s[i] = s[j] => i = j
CodesOf(r) == {processed_items[i].sku : i \in Cand(r)}

\* C23: a row's Original SKUs value lists exactly the distinct invoice codes
\* of all offers named as the row, each once.
C23_OriginalSkusAllCodes ==
    pc = "compared" =>
        \A r \in RowIds :
            /\ NoRepeat(Listed(rows[r].original_skus_text))
            /\ SeqToSet(Listed(rows[r].original_skus_text)) = CodesOf(r)

\* C23 as the code has it: a row's Original SKUs value lists exactly the
\* distinct non-empty invoice codes of all offers named as the row, of every
\* supplier, each once; an offer whose invoice code is empty adds nothing.
C23_OriginalSkusNonEmptyCodes ==
    pc = "compared" =>
        \A r \in RowIds :
            /\ NoRepeat(Listed(rows[r].original_skus_text))
            /\ SeqToSet(Listed(rows[r].original_skus_text)) = CodesOf(r) \ {<<>>}

\* a row that lists two codes, one of them only from a supplier that has no
\* cell-group, and two offers that share a code
C23_Witness ==
    /\ pc = "compared"
    /\ \E r \in RowIds :
          /\ Len(Listed(rows[r].original_skus_text)) = 2
          /\ \E i \in Cand(r) :
                /\ processed_items[i].supplier \notin SeqToSet(display_suppliers_order)
                /\ \A j \in Cand(r) \ {i} : processed_items[j].sku # processed_items[i].sku
          /\ Cardinality(Cand(r)) > 2

\* the offers of supplier s among the candidates of row r, and the last one
OffersOf(r, s) == {i \in Cand(r) : processed_items[i].supplier = s}
LastOf(S) == CHOOSE i \in S : \A j \in S : j <= i
Compared == pc \in {"compared", "app_compared"}

\* C24: when a supplier of display_suppliers_order has several offers of the
\* row's name, its cell-group shows the fields of the last of them in input
\* order, all from that one offer, wherever the winner sort puts it.
C24_CellGroupShowsLastOffer ==
    Compared =>
        \A r \in RowIds :
            \A s \in SeqToSet(display_suppliers_order) :
                OffersOf(r, s) # {} =>
                    LET item == processed_items[LastOf(OffersOf(r, s))]
                    IN  /\ rows[r].cells[s].MRP = Fmt2(item.mrp)
                        /\ rows[r].cells[s].BaseRate = Fmt2(item.base_rate)
                        /\ rows[r].cells[s].Qty.v = item.qty_display_str
                        /\ rows[r].cells[s].SKUCode = Text(item.sku)
                        /\ rows[r].cells[s] =
                              IF pc = "compared" THEN ItemCells(item)
                              ELSE app_ItemCells(item)

\* a supplier with two offers of the row's name that show differently, the
\* earlier one first in the winner sort and winning the row
C24_Witness ==
    /\ Compared
    /\ \E r \in RowIds :
          \E s \in SeqToSet(display_suppliers_order) :
              /\ Cardinality(OffersOf(r, s)) >= 2
              /\ LET last == processed_items[LastOf(OffersOf(r, s))]
                     first == processed_items[CHOOSE i \in OffersOf(r, s) :
                                                 \A j \in OffersOf(r, s) : i <= j]
                 IN  /\ first.base_rate # last.base_rate
                     /\ rows[r].offers[1] = first
                     /\ rows[r].offers[1] # last
                     /\ rows[r].best_deal.k = "text"
                     /\ rows[r].cells[s].BaseRate = Fmt2(last.base_rate)

\* C25: a row's Best Deal is the placeholder "-" or the supplier of an offer
\* named as the row; the candidates are all such offers, whether or not
\* their supplier is in display_suppliers_order.
C25_WinnerIsACandidateSupplier ==
    pc = "compared" =>
        \A r \in RowIds :
            \/ rows[r].best_deal = Dash
            \/ \E i \in Cand(r) : rows[r].best_deal = Text(processed_items[i].supplier)

\* a row won by a supplier that is not in display_suppliers_order and so has
\* no cell-group, while a listed supplier has an offer of that name too
C25_Witness ==
    /\ pc = "compared"
    /\ \E r \in RowIds :
          /\ rows[r].best_deal.k = "text"
          /\ rows[r].best_deal.v \notin SeqToSet(display_suppliers_order)
          /\ rows[r].best_deal.v \notin DOMAIN rows[r].cells
          /\ \E i \in Cand(r) : processed_items[i].supplier \in DOMAIN rows[r].cells

\* the three sort keys of the offers i and j of the shared offer list
SameRate(i, j) ==
    LET x == processed_items[i].calculated_rate_per_qty
        y == processed_items[j].calculated_rate_per_qty
    IN  IF x.k = "none" \/ y.k = "none" THEN x.k = y.k
        ELSE x.n * y.d = y.n * x.d
LowerRate(i, j) ==
    LET x == processed_items[i].calculated_rate_per_qty
        y == processed_items[j].calculated_rate_per_qty
    IN  x.k = "num" /\ (y.k = "none" \/ x.n * y.d < y.n * x.d)
TiedOnAllKeys(i, j) ==
    /\ SameRate(i, j)
    /\ processed_items[i].paid_qty = processed_items[j].paid_qty
    /\ CatalogBreadth(processed_items[i].supplier)
          = CatalogBreadth(processed_items[j].supplier)
RanksBefore(i, j) ==
    \/ LowerRate(i, j)
    \/ /\ SameRate(i, j)
       /\ \/ processed_items[i].paid_qty < processed_items[j].paid_qty
          \/ /\ processed_items[i].paid_qty = processed_items[j].paid_qty
             /\ CatalogBreadth(processed_items[i].supplier)
                   > CatalogBreadth(processed_items[j].supplier)
NamedAs(name) == {i \in Items : processed_items[i].sku_name = name}
Unbeaten(name) == {i \in NamedAs(name) : \A j \in NamedAs(name) : ~RanksBefore(j, i)}
FirstOf(S) == CHOOSE i \in S : \A j \in S : i <= j

\* C26: generate_comparison_table is deterministic in its inputs: among the
\* candidates of a row that tie on all three sort keys for the first place,
\* the one that comes first in the offer list is the winner, and two runs on
\* the same inputs report the same Best Deal in every row.
C26_TiesWonByFirstAndRunsAgree ==
    pc = "shared_ready" =>
        /\ \A c \in Callers :
              c_result[c].gen =>
                  \A r \in 1..Len(c_result[c].rows) :
                      LET row == c_result[c].rows[r]
                          best == Unbeaten(row.sku_name)
                      IN  /\ \A i, j \in best : TiedOnAllKeys(i, j)
                          /\ best # {} => row.offers[1] = processed_items[FirstOf(best)]
                          /\ row.best_deal # Dash =>
                                row.best_deal = Text(processed_items[FirstOf(best)].supplier)
        /\ \A c, d \in Callers :
              (c_result[c].gen /\ c_result[d].gen) =>
                  /\ Len(c_result[c].rows) = Len(c_result[d].rows)
                  /\ \A r \in 1..Len(c_result[c].rows) :
                        c_result[c].rows[r].best_deal = c_result[d].rows[r].best_deal

\* both runs are done, and a row has two candidates of different suppliers
\* tied on all three keys, won by the one that comes first in the offer
\* list, which is not the first in alphabetical order
C26_Witness ==
    /\ pc = "shared_ready"
    /\ \A c \in Callers : c_result[c].gen
    /\ \E r \in 1..Len(c_result[1].rows) :
          LET best == Unbeaten(c_result[1].rows[r].sku_name)
          IN  /\ Cardinality(best) = 2
              /\ processed_items[FirstOf(best)].supplier = B
              /\ \E i \in best : processed_items[i].supplier = A
              /\ c_result[1].rows[r].best_deal = Text(B)
              /\ c_result[2].rows[r].best_deal = Text(B)

\* the comparison table is on display; extracted data is present
TableShown == session_state.comparison_df # <<>>
DataPresent == Truthy(session_state.extracted_data)
AfterExtractClick == pc \in {"extract_failed", "extract_raised", "extracted"}

\* C27: in the session of app.py, whatever the user clicked, a non-empty
\* comparison table implies that extracted data is present; right after an
\* Extract click no table, SKU list or selection of an earlier extraction
\* remains, and after a failed or empty extraction the session state is the
\* cleared one.
C27_TableImpliesData ==
    /\ TableShown => DataPresent
    /\ AfterExtractClick => ~TableShown
    /\ pc = "extract_failed" => session_state = InitialSessionState
    /\ pc = "extract_raised" =>
          /\ session_state.all_skus_from_pdfs = <<>>
          /\ session_state.selected_skus_for_comparison = <<>>
    /\ pc = "extracted" =>
          /\ DataPresent
          /\ SeqToSet(session_state.all_skus_from_pdfs) =
                {it.sku_name : it \in SeqToSet(
                    app_preprocess_data(session_state.extracted_data.v).items)}
          /\ session_state.selected_skus_for_comparison
                = session_state.all_skus_from_pdfs

\* a table was on display, then an extraction failed or returned nothing:
\* nothing of the earlier extraction is left
C27_Witness ==
    /\ pc = "extract_failed"
    /\ c_args.table_before
    /\ session_state = InitialSessionState

====
